---- MODULE Spec2Model ----
(***************************************************************************)
(* Model of the OpenStack MCP server's query pipeline                      *)
(* (src/mcp_openstack_http): the dispatcher call_tool, the per-kind query  *)
(* processors process_*_query, the worker functions get_* (connect,        *)
(* enumerate, filter, limit, project, endpoint lookup) and the formatters. *)
(*                                                                         *)
(* Strings the code inspects (filter values, names, ids) are sequences of  *)
(* one-character strings, so that str.lower() and the `in` operator are    *)
(* computed rather than assumed.  A raw record is a function from field    *)
(* names to values; a field the record does not carry is outside its       *)
(* DOMAIN (attribute absent), a field carried with no value is Null.       *)
(***************************************************************************)
EXTENDS Integers, Sequences, FiniteSets, TLC

\* ------------------------------------------------------------------ bounds
\* longest sequence an enumeration call returns
MaxRecords == 2
\* largest explicit limit argument tried (besides the default)
MaxLimit == 2
\* number of request slots (Spec and SpecPipe drive slot 1)
NReq == 2
\* most endpoints one identity service has
MaxEndpoints == 1

\* ------------------------------------------------------- program constants
\* arguments.get("limit", 100)
DefaultLimit == 100

\* ------------------------------------------------------------------ values
\* Every value has the same four fields so that any two can be compared.
Null == [t |-> "null", s |-> <<>>, n |-> 0, b |-> FALSE]

Str(x) == [t |-> "str", s |-> x, n |-> 0, b |-> FALSE]

Num(k) == [t |-> "int", s |-> <<>>, n |-> k, b |-> FALSE]

Bool(v) == [t |-> "bool", s |-> <<>>, n |-> 0, b |-> v]

\* a list value, by its length
List(k) == [t |-> "list", s |-> <<>>, n |-> k, b |-> FALSE]

\* a mapping value such as server.flavor: b says whether it has key "id",
\* s is the value under that key
Dict(hasId, x) == [t |-> "dict", s |-> x, n |-> 0, b |-> hasId]

\* the sentinel string (the Chinese word for "unknown") used as the
\* getattr/dict.get default
Unknown == Str(<<"unknown">>)

\* Python truthiness of a value (`v.name and ...`, `x or <unnamed>`)
Truthy(v) ==
  CASE v.t = "null" -> FALSE
    [] v.t = "str"  -> v.s # <<>>
    [] v.t = "int"  -> v.n # 0
    [] v.t = "bool" -> v.b
    [] v.t = "list" -> v.n # 0
    [] OTHER        -> v.b

\* ----------------------------------------------------------------- strings
\* str.lower() on one character of the alphabet the model uses
LowerChar(c) ==
  CASE c = "A" -> "a"
    [] c = "B" -> "b"
    [] c = "V" -> "v"
    [] OTHER   -> c

\* str.lower()
Lower(x) == [i \in 1..Len(x) |-> LowerChar(x[i])]

\* mutant: only a match at the start of x counts
ContainsAtStart(sub, x) ==
  Len(sub) <= Len(x) /\ SubSeq(x, 1, Len(sub)) = sub

\* Python's `sub in x` on strings
Contains(sub, x) ==
  \E i \in 0..(Len(x) - Len(sub)) : SubSeq(x, i + 1, i + Len(sub)) = sub

\* ------------------------------------------------------------------- kinds
Kinds == {"instance", "volume", "network", "image", "compute_service",
          "network_agent", "volume_service", "service"}

DetailLevels == {"basic", "detailed", "full"}

\* --------------------------------------------------------- filter predicate
\* Each clause of a filter expression evaluates to "T", "F" or "E" (the
\* evaluation raised AttributeError / TypeError).

\* `a or b`, b evaluated only when a is false
OrElse(a, b) == IF a = "E" THEN "E" ELSE IF a = "T" THEN "T" ELSE b

\* `fv.lower() in x.f.lower()` with no guard: attribute access and .lower()
\* both raise on a record without a usable string
BareLowerIn(rec, f, fv) ==
  IF f \notin DOMAIN rec THEN "E"
  ELSE IF rec[f].t # "str" THEN "E"
  ELSE IF Contains(Lower(fv), Lower(rec[f].s)) THEN "T" ELSE "F"

\* `(x.f and fv.lower() in x.f.lower())`
TruthyLowerIn(rec, f, fv) ==
  IF f \notin DOMAIN rec THEN "E"
  ELSE IF ~Truthy(rec[f]) THEN "F"
  ELSE BareLowerIn(rec, f, fv)

\* `(hasattr(x, f) and fv.lower() in x.f.lower())`
HasattrLowerIn(rec, f, fv) ==
  IF f \notin DOMAIN rec THEN "F" ELSE BareLowerIn(rec, f, fv)

\* `fv in x.id`
BareIn(rec, f, fv) ==
  IF f \notin DOMAIN rec THEN "E"
  ELSE IF rec[f].t # "str" THEN "E"
  ELSE IF Contains(fv, rec[f].s) THEN "T" ELSE "F"

\* `(hasattr(x, "id") and fv in x.id)`
HasattrIn(rec, f, fv) ==
  IF f \notin DOMAIN rec THEN "F" ELSE BareIn(rec, f, fv)

MatchInstance(rec, fv) ==
  OrElse(BareLowerIn(rec, "name", fv), BareIn(rec, "id", fv))

MatchVolume(rec, fv) ==
  OrElse(TruthyLowerIn(rec, "name", fv), BareIn(rec, "id", fv))

MatchNetwork(rec, fv) ==
  OrElse(TruthyLowerIn(rec, "name", fv), BareIn(rec, "id", fv))

MatchImage(rec, fv) ==
  OrElse(TruthyLowerIn(rec, "name", fv), BareIn(rec, "id", fv))

MatchComputeService(rec, fv) ==
  OrElse(HasattrLowerIn(rec, "binary", fv),
         OrElse(HasattrLowerIn(rec, "host", fv), HasattrIn(rec, "id", fv)))

MatchNetworkAgent(rec, fv) ==
  OrElse(HasattrLowerIn(rec, "agent_type", fv),
         OrElse(HasattrLowerIn(rec, "host", fv), HasattrIn(rec, "id", fv)))

MatchService(rec, fv) ==
  OrElse(HasattrLowerIn(rec, "name", fv),
         OrElse(HasattrLowerIn(rec, "type", fv), HasattrIn(rec, "id", fv)))

\* get_volume_services (os_volume_service.py), after the Filter Predicate
\* contract: a clause on an absent or null field is false.
SafeLowerIn(rec, f, fv) ==
  IF f \notin DOMAIN rec THEN "F"
  ELSE IF rec[f].t # "str" THEN "F"
  ELSE IF Contains(Lower(fv), Lower(rec[f].s)) THEN "T" ELSE "F"

MatchVolumeService(rec, fv) ==
  OrElse(SafeLowerIn(rec, "binary", fv),
         OrElse(SafeLowerIn(rec, "host", fv), HasattrIn(rec, "id", fv)))

Match(kind, rec, fv) ==
  CASE kind = "instance"        -> MatchInstance(rec, fv)
    [] kind = "volume"          -> MatchVolume(rec, fv)
    [] kind = "network"         -> MatchNetwork(rec, fv)
    [] kind = "image"           -> MatchImage(rec, fv)
    [] kind = "compute_service" -> MatchComputeService(rec, fv)
    [] kind = "network_agent"   -> MatchNetworkAgent(rec, fv)
    [] kind = "volume_service"  -> MatchVolumeService(rec, fv)
    [] OTHER                    -> MatchService(rec, fv)

\* `if filter_value: xs = [x for x in xs if ...]`: the comprehension raises
\* as soon as one record's test raises; an empty filter skips it altogether.
FilterRaises(kind, xs, fv) ==
  fv # <<>> /\ \E i \in 1..Len(xs) : Match(kind, xs[i], fv) = "E"

\* mutant: the kept records come out in reverse order
ApplyFilterReversed(kind, xs, fv) ==
  IF fv = <<>> THEN xs
  ELSE LET Keep(x) == Match(kind, x, fv) = "T"
           kept == SelectSeq(xs, Keep)
       IN [i \in 1..Len(kept) |-> kept[Len(kept) + 1 - i]]

ApplyFilter(kind, xs, fv) ==
  IF fv = <<>> THEN xs
  ELSE LET Keep(x) == Match(kind, x, fv) = "T" IN SelectSeq(xs, Keep)

\* mutant: xs[:limit + 1]
ApplyLimitOffByOne(xs, limit) ==
  IF limit + 1 >= 0
    THEN SubSeq(xs, 1, IF limit + 1 < Len(xs) THEN limit + 1 ELSE Len(xs))
    ELSE SubSeq(xs, 1, IF Len(xs) + limit + 1 > 0 THEN Len(xs) + limit + 1 ELSE 0)

\* mutant: the last `limit` records instead of the first
ApplyLimitTail(xs, limit) ==
  IF limit >= 0
    THEN SubSeq(xs, IF limit < Len(xs) THEN Len(xs) - limit + 1 ELSE 1, Len(xs))
    ELSE SubSeq(xs, 1, IF Len(xs) + limit > 0 THEN Len(xs) + limit ELSE 0)

\* `xs[:limit]`: a negative limit counts from the end
ApplyLimit(xs, limit) ==
  IF limit >= 0
    THEN SubSeq(xs, 1, IF limit < Len(xs) THEN limit ELSE Len(xs))
    ELSE SubSeq(xs, 1, IF Len(xs) + limit > 0 THEN Len(xs) + limit ELSE 0)

\* ---------------------------------------------------------- detail projector
\* One line of a curated projection: result key, raw attribute read, how it
\* is read, and the default.
\*   "attr"   x.f                         raises when f is absent
\*   "get"    getattr(x, f, d) / d.get(f, d)
\*   "dictid" getattr(x, f, {}).get("id", d)   raises when x.f is not a mapping
Line(key, src, mode, dflt) ==
  [key |-> key, src |-> src, mode |-> mode, dflt |-> dflt]

Direct(f) == Line(f, f, "attr", Null)

Get(f, d) == Line(f, f, "get", d)

EmptyDict == Dict(FALSE, <<>>)

\* get_volume_services (os_volume_service.py), after the Detail Projector
\* contract: basic is identifier, binary and status; detailed adds host, zone
\* and the timestamp; every field is read get-or-default.
VolumeServiceBasicLines ==
  {Get("id", Unknown), Get("binary", Unknown), Get("status", Unknown)}

VolumeServiceDetailedLines ==
  {Get("host", Unknown), Get("zone", Unknown), Get("updated_at", Unknown)}

BasicLines(kind) ==
  CASE kind = "instance" ->
         {Direct("id"), Direct("name"), Direct("status")}
    [] kind = "volume" ->
         {Direct("id"), Direct("name"), Direct("status"), Direct("size")}
    [] kind = "network" ->
         {Get("id", Unknown), Get("name", Unknown), Get("status", Unknown),
          Line("is_shared", "shared", "get", Bool(FALSE)),
          Line("is_external", "router:external", "get", Bool(FALSE))}
    [] kind = "image" ->
         {Direct("id"), Direct("name"), Direct("status"),
          Get("size", Num(0)), Get("disk_format", Unknown)}
    [] kind = "compute_service" ->
         {Get("id", Unknown), Get("binary", Unknown), Get("host", Unknown),
          Get("state", Unknown)}
    [] kind = "network_agent" ->
         {Direct("id"), Get("agent_type", Unknown), Get("host", Unknown),
          Line("alive", "is_alive", "get", Bool(FALSE))}
    [] kind = "volume_service" -> VolumeServiceBasicLines
    [] OTHER ->
         {Direct("id"), Get("name", Unknown), Get("type", Unknown)}

DetailedLines(kind) ==
  BasicLines(kind) \cup
  CASE kind = "instance" ->
         {Line("flavor", "flavor", "dictid", Unknown),
          Line("image", "image", "dictid", Unknown),
          Get("addresses", EmptyDict), Get("created_at", Unknown)}
    [] kind = "volume" ->
         {Get("volume_type", Unknown), Get("bootable", Bool(FALSE)),
          Get("created_at", Unknown), Get("attachments", List(0)),
          Get("availability_zone", Unknown)}
    [] kind = "network" ->
         {Get("mtu", Null), Get("subnets", List(0)),
          Get("availability_zones", List(0)), Get("created_at", Unknown),
          Get("project_id", Unknown)}
    [] kind = "image" ->
         {Get("container_format", Unknown), Get("min_disk", Num(0)),
          Get("min_ram", Num(0)), Get("created_at", Unknown),
          Get("updated_at", Unknown), Get("visibility", Unknown),
          Get("protected", Bool(FALSE)), Get("owner_id", Unknown)}
    [] kind = "compute_service" ->
         {Get("status", Unknown), Get("zone", Unknown),
          Get("updated_at", Unknown), Get("disabled_reason", Null)}
    [] kind = "network_agent" ->
         {Line("admin_state_up", "is_admin_state_up", "get", Bool(FALSE)),
          Get("binary", Unknown), Get("created_at", Unknown),
          Get("heartbeat_timestamp", Unknown),
          Get("availability_zone", Unknown)}
    [] kind = "volume_service" -> VolumeServiceDetailedLines
    [] OTHER ->
         {Get("description", Str(<<>>)),
          Line("enabled", "is_enabled", "get", Bool(TRUE))}

\* the value one line reads from a record (when reading does not raise)
ReadLine(rec, ln) ==
  IF ln.src \notin DOMAIN rec THEN ln.dflt
  ELSE IF ln.mode = "dictid"
         THEN (IF rec[ln.src].b THEN Str(rec[ln.src].s) ELSE ln.dflt)
         ELSE rec[ln.src]

LineRaises(rec, ln) ==
  \/ ln.mode = "attr" /\ ln.src \notin DOMAIN rec
  \/ ln.mode = "dictid" /\ ln.src \in DOMAIN rec /\ rec[ln.src].t # "dict"

Curated(rec, lines) ==
  [k \in {ln.key : ln \in lines} |->
     ReadLine(rec, CHOOSE ln \in lines : ln.key = k)]

\* mutant: the None values are kept
NonNullKeepsAll(rec) == rec

\* {k: v for k, v in x.to_dict().items() if v is not None}
NonNull(rec) == [k \in {f \in DOMAIN rec : rec[f] # Null} |-> rec[k]]

\* network, tier full: is_external is copied from "router:external" before
\* the None values are dropped
FullNetwork(rec) ==
  IF "router:external" \in DOMAIN rec
    THEN NonNull([k \in DOMAIN rec \cup {"is_external"} |->
                    IF k = "is_external" THEN rec["router:external"]
                    ELSE rec[k]])
    ELSE NonNull(rec)

ProjectRaises(kind, rec, detail_level) ==
  CASE detail_level = "basic" ->
         \E ln \in BasicLines(kind) : LineRaises(rec, ln)
    [] detail_level = "detailed" ->
         \E ln \in DetailedLines(kind) : LineRaises(rec, ln)
    [] OTHER -> FALSE

\* mutant: the detailed projection holds the secondary fields only
ProjectSecondaryOnly(kind, rec, detail_level) ==
  CASE detail_level = "basic"    -> Curated(rec, BasicLines(kind))
    [] detail_level = "detailed" ->
         Curated(rec, DetailedLines(kind) \ BasicLines(kind))
    [] OTHER -> IF kind = "network" THEN FullNetwork(rec) ELSE NonNull(rec)

\* the record appended to results for one raw record, by tier
Project(kind, rec, detail_level) ==
  CASE detail_level = "basic"    -> Curated(rec, BasicLines(kind))
    [] detail_level = "detailed" -> Curated(rec, DetailedLines(kind))
    [] OTHER -> IF kind = "network" THEN FullNetwork(rec) ELSE NonNull(rec)

\* mutant: the endpoints are looked up at every tier
NeedsEndpointsAnyTier(kind, detail_level) == kind = "service"

\* identity services, every tier but basic: service_info["endpoints"] = [...]
NeedsEndpoints(kind, detail_level) ==
  kind = "service" /\ detail_level # "basic"

WithEndpoints(info, k) ==
  [f \in DOMAIN info \cup {"endpoints"} |->
     IF f = "endpoints" THEN List(k) ELSE info[f]]

\* ---------------------------------------------------------- summary formatter
\* keys the formatter subscripts without a guard (x['id'], x['name'], ...)
\* format_volume_services_summary (os_volume_service.py), after the Summary
\* Formatter contract: every field is looked up get-or-default
VolumeServiceRequiredKeys == {}

RequiredKeys(kind) ==
  CASE kind = "instance"        -> {"id", "name", "status"}
    [] kind = "volume"          -> {"id", "name", "status", "size"}
    [] kind = "network"         -> {"id", "name", "status"}
    [] kind = "image"           -> {"id", "name", "status"}
    [] kind = "compute_service" -> {"binary", "host", "state"}
    [] kind = "network_agent"   -> {"id", "agent_type", "host", "alive"}
    [] kind = "volume_service"  -> VolumeServiceRequiredKeys
    [] OTHER                    -> {"id", "name", "type"}

\* the formatter raises KeyError on a record without a subscripted key
FormatRaises(kind, xs) ==
  \E i \in 1..Len(xs) : ~(RequiredKeys(kind) \subseteq DOMAIN xs[i])

\* One line of a formatted block: its label, the key it shows, when it is
\* emitted and how the value is rendered.
\*   guard  "sub"            x[k]: always emitted, KeyError when k is missing
\*          "get"            x.get(k, d): always emitted
\*          "in"             if k in x
\*          "in_truthy"      if k in x and x[k]
\*          "in_nonnull"     if k in x and x[k] is not None
\*          "in_not_unknown" if k in x and x[k] != <unknown>
\*   render "str"            f"{v}" (json.dumps / join for nested values)
\*          "or_unnamed"     f"{v or <unnamed>}"
\*          "truthy"         <affirmative> if v else <negative>
\*          "eq_true"        <affirmative> if v == 'true' else <negative>
\*          "size"           the image size in MB or GB
\*          "external"       the network's external flag
FLine(label, key, guard, render, pair) ==
  [label |-> label, key |-> key, guard |-> guard, render |-> render,
   pair |-> pair]

Sub(label, key) == FLine(label, key, "sub", "str", "")

IfIn(label, key) == FLine(label, key, "in", "str", "")

IfTruthy(label, key) == FLine(label, key, "in_truthy", "str", "")

\* format_volume_services_summary (os_volume_service.py), after the Summary
\* Formatter contract: headline identifier, binary and status, then the
\* optional lines when the field is present and non-null
VolumeServiceHeadline ==
  <<FLine("id", "id", "get", "str", ""),
    FLine("binary", "binary", "get", "str", ""),
    FLine("status", "status", "get", "str", "")>>

VolumeServiceGated ==
  <<FLine("host", "host", "in_nonnull", "str", ""),
    FLine("zone", "zone", "in_nonnull", "str", ""),
    FLine("updated_at", "updated_at", "in_nonnull", "str", "")>>

\* the lines every block starts with, in order
Headline(kind) ==
  CASE kind = "instance" ->
         <<Sub("id", "id"), Sub("name", "name"), Sub("status", "status")>>
    [] kind = "volume" ->
         <<Sub("id", "id"), FLine("name", "name", "sub", "or_unnamed", ""),
           Sub("status", "status"), Sub("size_gb", "size")>>
    [] kind = "network" ->
         <<Sub("id", "id"), FLine("name", "name", "sub", "or_unnamed", ""),
           Sub("status", "status"),
           FLine("shared", "is_shared", "get", "truthy", "yesno"),
           FLine("external", "is_external", "get", "external", "yesno")>>
    [] kind = "image" ->
         <<Sub("id", "id"), FLine("name", "name", "sub", "or_unnamed", ""),
           Sub("status", "status"),
           FLine("size", "size", "get", "size", ""),
           FLine("format", "disk_format", "get", "str", "")>>
    [] kind = "compute_service" ->
         <<Sub("service", "binary"), Sub("host", "host"),
           Sub("state", "state")>>
    [] kind = "network_agent" ->
         <<Sub("id", "id"), Sub("type", "agent_type"), Sub("host", "host"),
           FLine("alive", "alive", "sub", "truthy", "alive")>>
    [] kind = "volume_service" -> VolumeServiceHeadline
    [] OTHER ->
         <<Sub("id", "id"), Sub("name", "name"), Sub("type", "type")>>

\* the lines under `if detail_level != "basic":`, in order
Gated(kind) ==
  CASE kind = "instance" ->
         <<IfIn("created_at", "created_at"),
           FLine("flavor", "flavor", "in_not_unknown", "str", ""),
           IfIn("addresses", "addresses")>>
    [] kind = "volume" ->
         <<IfIn("created_at", "created_at"),
           IfIn("volume_type", "volume_type"),
           FLine("bootable", "bootable", "in", "eq_true", "yesno"),
           IfIn("availability_zone", "availability_zone"),
           IfTruthy("attachments", "attachments")>>
    [] kind = "network" ->
         <<IfIn("created_at", "created_at"), IfTruthy("mtu", "mtu"),
           IfTruthy("subnets", "subnets"),
           IfTruthy("availability_zones", "availability_zones"),
           IfIn("project_id", "project_id")>>
    [] kind = "image" ->
         <<IfIn("container_format", "container_format"),
           IfIn("min_disk", "min_disk"), IfIn("min_ram", "min_ram"),
           IfIn("created_at", "created_at"),
           IfIn("visibility", "visibility"),
           FLine("protected", "protected", "in", "truthy", "yesno"),
           IfIn("owner_id", "owner_id")>>
    [] kind = "compute_service" ->
         <<IfIn("status", "status"), IfIn("zone", "zone"),
           IfIn("updated_at", "updated_at"),
           IfTruthy("disabled_reason", "disabled_reason")>>
    [] kind = "network_agent" ->
         <<FLine("admin_state", "admin_state_up", "in", "truthy", "enabled"),
           IfIn("binary", "binary"),
           IfIn("heartbeat_timestamp", "heartbeat_timestamp"),
           IfTruthy("availability_zone", "availability_zone")>>
    [] kind = "volume_service" -> VolumeServiceGated
    [] OTHER ->
         <<IfTruthy("description", "description"),
           FLine("enabled", "enabled", "in", "truthy", "enabled"),
           IfTruthy("endpoints", "endpoints")>>

\* the two tokens a boolean line chooses from (the Chinese words for yes/no,
\* active/inactive, enabled/disabled)
Token(pair, yes) ==
  CASE pair = "alive"   -> Str(<<IF yes THEN "active" ELSE "inactive">>)
    [] pair = "enabled" -> Str(<<IF yes THEN "enabled" ELSE "disabled">>)
    [] OTHER            -> Str(<<IF yes THEN "yes" ELSE "no">>)

\* the string (the Chinese word for "unnamed") shown for a falsy name
Unnamed == Str(<<"unnamed">>)

\* the string the volume formatter compares bootable with
TrueString == Str(<<"t", "r", "u", "e">>)

\* 1024 * 1024
MiB == 1024 * 1024

\* a size shown with two decimals: the unit and the number of hundredths
Quantity(unit, hundredths) ==
  [t |-> unit, s |-> <<>>, n |-> hundredths, b |-> FALSE]

\* 25 * b = q * u + r with 0 <= r < u, for u = 2^18 or 2^28 and b < 2^31,
\* computed in pieces of 2^14 so that no intermediate exceeds 2^31
Times25DivMod(b, u) ==
  LET h  == 2^14
      b1 == b \div u
      b0 == b % u
      r1 == b0 \div h
      r2 == b0 % h
      B  == 25 * r1 + (25 * r2) \div h
      C  == (25 * r2) % h
      uh == u \div h
  IN [q |-> 25 * b1 + B \div uh, r |-> (B % uh) * h + C]

\* f"{b / unit:.2f}" in hundredths: the quotient is exact in binary floating
\* point, so the two decimals are the exact value rounded half to even
Hundredths(b, unit) ==
  LET d == Times25DivMod(b, unit \div 4)
      u == unit \div 4
  IN d.q + (IF 2 * d.r > u \/ (2 * d.r = u /\ d.q % 2 = 1) THEN 1 ELSE 0)

\* mutant: the unit changes at 1024 MiB, not above it
SizeShownAtThreshold(v) ==
  IF ~Truthy(v) THEN Quantity("MB", 0)
  ELSE IF v.n >= 1024 * MiB
         THEN Quantity("GB", Hundredths(v.n, 1024 * MiB))
         ELSE Quantity("MB", Hundredths(v.n, MiB))

\* size_mb = size / (1024 * 1024) if size else 0; above 1024 it is shown
\* as size_mb / 1024 GB, else as size_mb MB
SizeShown(v) ==
  IF ~Truthy(v) THEN Quantity("MB", 0)
  ELSE IF v.n > 1024 * MiB
         THEN Quantity("GB", Hundredths(v.n, 1024 * MiB))
         ELSE Quantity("MB", Hundredths(v.n, MiB))

\* the value a line looks at
FieldValue(x, fl) ==
  IF fl.render = "external"
    THEN (IF "is_external" \in DOMAIN x THEN x["is_external"]
          ELSE IF "router:external" \in DOMAIN x THEN x["router:external"]
          ELSE Bool(FALSE))
  ELSE IF fl.key \in DOMAIN x THEN x[fl.key]
  ELSE IF fl.render = "str" THEN Unknown
  ELSE Null

\* whether the line is emitted for record x
Shown(x, fl) ==
  CASE fl.guard = "in"             -> fl.key \in DOMAIN x
    [] fl.guard = "in_truthy"      -> fl.key \in DOMAIN x /\ Truthy(x[fl.key])
    [] fl.guard = "in_nonnull"     -> fl.key \in DOMAIN x /\ x[fl.key] # Null
    [] fl.guard = "in_not_unknown" -> fl.key \in DOMAIN x /\ x[fl.key] # Unknown
    [] OTHER                       -> TRUE

\* mutant: the bootable comparison is a truth test like the other booleans
RenderedTruthTest(x, fl) ==
  LET v == FieldValue(x, fl)
  IN CASE fl.render = "or_unnamed" -> (IF Truthy(v) THEN v ELSE Unnamed)
       [] fl.render = "truthy"     -> Token(fl.pair, Truthy(v))
       [] fl.render = "external"   -> Token(fl.pair, Truthy(v))
       [] fl.render = "eq_true"    -> Token(fl.pair, Truthy(v))
       [] fl.render = "size"       -> SizeShown(v)
       [] OTHER                    -> v

\* what the line shows for record x
Rendered(x, fl) ==
  LET v == FieldValue(x, fl)
  IN CASE fl.render = "or_unnamed" -> (IF Truthy(v) THEN v ELSE Unnamed)
       [] fl.render = "truthy"     -> Token(fl.pair, Truthy(v))
       [] fl.render = "external"   -> Token(fl.pair, Truthy(v))
       [] fl.render = "eq_true"    -> Token(fl.pair, v = TrueString)
       [] fl.render = "size"       -> SizeShown(v)
       [] OTHER                    -> v

\* mutant: the gated lines are emitted for the two named tiers only
BlockNamedTiers(kind, x, detail_level) ==
  LET all == Headline(kind) \o
               (IF detail_level \in {"detailed", "full"}
                  THEN Gated(kind) ELSE <<>>)
      Emitted(fl) == Shown(x, fl)
      ls == SelectSeq(all, Emitted)
  IN [i \in 1..Len(ls) |-> [label |-> ls[i].label, v |-> Rendered(x, ls[i])]]

\* the block of one record: the headline, then the gated lines unless the
\* tier is basic, each as label and shown value
Block(kind, x, detail_level) ==
  LET all == Headline(kind) \o
               (IF detail_level # "basic" THEN Gated(kind) ELSE <<>>)
      Emitted(fl) == Shown(x, fl)
      ls == SelectSeq(all, Emitted)
  IN [i \in 1..Len(ls) |-> [label |-> ls[i].label, v |-> Rendered(x, ls[i])]]

\* no text returned yet
NoText ==
  [some |-> FALSE, empty |-> FALSE, kind |-> "", count |-> 0,
   numbers |-> <<>>, blocks |-> <<>>]

\* mutant: the header carries the index of the last but one record
FormatSummaryHeaderShort(kind, xs, detail_level) ==
  [some |-> TRUE, empty |-> xs = <<>>, kind |-> kind,
   count |-> IF xs = <<>> THEN 0 ELSE Len(xs) - 1,
   numbers |-> [i \in 1..Len(xs) |-> i],
   blocks |-> [i \in 1..Len(xs) |-> Block(kind, xs[i], detail_level)]]

\* mutant: the empty list is not special-cased outside tier basic
FormatSummaryNoEarlyReturn(kind, xs, detail_level) ==
  [some |-> TRUE, empty |-> xs = <<>> /\ detail_level = "basic",
   kind |-> kind, count |-> Len(xs),
   numbers |-> [i \in 1..Len(xs) |-> i],
   blocks |-> [i \in 1..Len(xs) |-> Block(kind, xs[i], detail_level)]]

\* the returned text: the kind's fixed sentence for an empty list
\* (`if not xs: return ...`), else the kind's header carrying len(xs) and
\* one block per record, numbered by enumerate(xs, 1)
FormatSummary(kind, xs, detail_level) ==
  [some |-> TRUE, empty |-> xs = <<>>, kind |-> kind, count |-> Len(xs),
   numbers |-> [i \in 1..Len(xs) |-> i],
   blocks |-> [i \in 1..Len(xs) |-> Block(kind, xs[i], detail_level)]]

\* ------------------------------------------------------------------ failures
\* str(err) of the failures the model distinguishes, as token sequences
ConnectionFailure == <<"connection", "refused">>

EnumerationFailure == <<"enumeration", "failed">>

EndpointFailure == <<"endpoint", "lookup", "failed">>

AttributeError == <<"object", "has", "no", "attribute">>

KeyError == <<"missing", "key">>

ChannelFailure == <<"session", "closed">>

\* error_message = f"<failed to retrieve <kind> information>: {str(err)}"
ErrorMessage(kind, cause) == <<"failed to retrieve", kind, "information: ">> \o cause

NoExc == [type |-> "none", msg |-> <<>>]

Exc(type, msg) == [type |-> type, msg |-> msg]

\* -------------------------------------------------------------------- events
\* What a request did, in order: notifications delivered to the session
\* (with the related_request_id they carry), sends that failed, and the
\* worker's calls into the infrastructure client.
Event(ev, level, what, n, data, rid) ==
  [ev |-> ev, level |-> level, what |-> what, n |-> n, data |-> data,
   rid |-> rid]

Notification(level, what, n, data, rid) ==
  Event("notify", level, what, n, data, rid)

Step(ev, rid) == Event(ev, "", "", 0, <<>>, rid)

\* ------------------------------------------------------------------- inputs
\* the names list_tools advertises
ListedTools == {"get_instances", "get_volumes", "get_networks", "get_images",
                "get_compute_services", "get_network_agents",
                "get_volume_services", "get_services"}

\* mutant: one more name is taken for a known tool
ToolNamesWithFlavors ==
  {"get_instances", "get_volumes", "get_networks", "get_images",
   "get_compute_services", "get_network_agents", "get_volume_services",
   "get_services", "get_flavors"}

\* the names call_tool has a branch for
ToolNames == {"get_instances", "get_volumes", "get_networks", "get_images",
              "get_compute_services", "get_network_agents",
              "get_volume_services", "get_services"}

ToolKind(name) ==
  CASE name = "get_instances"        -> "instance"
    [] name = "get_volumes"          -> "volume"
    [] name = "get_networks"         -> "network"
    [] name = "get_images"           -> "image"
    [] name = "get_compute_services" -> "compute_service"
    [] name = "get_network_agents"   -> "network_agent"
    [] name = "get_volume_services"  -> "volume_service"
    [] OTHER                         -> "service"

\* mutant: the volume-service branch is wired to the volume fetcher
ToolFetcherCrossed(name) ==
  CASE name = "get_instances"        -> "instance"
    [] name = "get_volumes"          -> "volume"
    [] name = "get_networks"         -> "network"
    [] name = "get_images"           -> "image"
    [] name = "get_compute_services" -> "compute_service"
    [] name = "get_network_agents"   -> "network_agent"
    [] name = "get_volume_services"  -> "volume"
    [] OTHER                         -> "service"

\* the kind of the get_* function behind the get_*_with_config closure that
\* each branch passes as get_*_func
ToolFetcher(name) ==
  CASE name = "get_instances"        -> "instance"
    [] name = "get_volumes"          -> "volume"
    [] name = "get_networks"         -> "network"
    [] name = "get_images"           -> "image"
    [] name = "get_compute_services" -> "compute_service"
    [] name = "get_network_agents"   -> "network_agent"
    [] name = "get_volume_services"  -> "volume_service"
    [] OTHER                         -> "service"

\* the keys of openstack_config, the credentials stored at start-up
StoredCredentials ==
  <<"auth_url", "username", "password", "project_name",
    "user_domain_name", "project_domain_name">>

\* mutant: the key is ignored and the default always taken
ArgGetDefaultOnly(arguments, key, dflt) == dflt

\* arguments.get(key, default)
ArgGet(arguments, key, dflt) ==
  IF key \in DOMAIN arguments THEN arguments[key] ELSE dflt

Reqs == 1..NReq

Digit == <<"1", "2", "3", "4", "5", "6", "7", "8", "9">>

\* the i-th record of an enumeration has id "v<i>"
IdAt(i) == Str(<<"v", Digit[i]>>)

\* a field option that stands for "the record does not carry the field"
Absent == [t |-> "absent", s |-> <<>>, n |-> 0, b |-> FALSE]

NameStr == Str(<<"a", "B">>)

\* the name-like fields of each kind, first and second
NameField(kind) ==
  CASE kind = "compute_service" -> "binary"
    [] kind = "volume_service"  -> "binary"
    [] kind = "network_agent"   -> "agent_type"
    [] OTHER                    -> "name"

SecondField(kind) ==
  CASE kind = "compute_service" -> "host"
    [] kind = "volume_service"  -> "host"
    [] kind = "network_agent"   -> "host"
    [] kind = "service"         -> "type"
    [] OTHER                    -> ""

\* fields every record of the kind carries in the model's enumerations
BaseFields(kind) ==
  CASE kind = "volume"          -> {"id", "status", "size"}
    [] kind = "compute_service" -> {"id", "state"}
    [] kind = "volume_service"  -> {"id", "status"}
    [] kind = "network_agent"   -> {"id", "is_alive"}
    [] kind = "service"         -> {"id"}
    [] OTHER                    -> {"id", "status"}

BaseValue(f, i) ==
  CASE f = "id"       -> IdAt(i)
    [] f = "size"     -> Num(10)
    [] f = "is_alive" -> Bool(TRUE)
    [] OTHER          -> Str(<<"u", "p">>)

\* the record at position i whose name-like fields are the options o1, o2
MkRecord(kind, i, o1, o2) ==
  LET fs == BaseFields(kind)
            \cup (IF o1 # Absent THEN {NameField(kind)} ELSE {})
            \cup (IF o2 # Absent /\ SecondField(kind) # ""
                    THEN {SecondField(kind)} ELSE {})
  IN [f \in fs |->
        IF f \in BaseFields(kind) THEN BaseValue(f, i)
        ELSE IF f = NameField(kind) THEN o1 ELSE o2]

\* option pairs of a kind: every combination of absent, null and a string
WideOptions(kind) ==
  {<<o1, o2>> : o1 \in {Absent, Null, NameStr},
                o2 \in IF SecondField(kind) = "" THEN {Absent}
                       ELSE {Absent, Null, NameStr}}

\* option pairs with a present first field only
NarrowOptions(kind) ==
  {<<o1, o2>> : o1 \in {Null, NameStr},
                o2 \in IF SecondField(kind) = "" THEN {Absent}
                       ELSE {NameStr}}

\* every enumeration result of at most MaxRecords records over the options
CloudsOver(kind, options) ==
  UNION {{[i \in 1..n |-> MkRecord(kind, i, o[i][1], o[i][2])] :
            o \in [1..n -> options]} : n \in 0..MaxRecords}

WideClouds(kind) == CloudsOver(kind, WideOptions(kind))

NarrowClouds(kind) == CloudsOver(kind, NarrowOptions(kind))

FilterValues == {<<>>, <<"A", "b">>, <<"v", "2">>, <<"V", "2">>}

LimitValues == ((0 - 1)..MaxLimit) \cup {DefaultLimit}

LevelValues == DetailLevels \cup {"verbose"}

\* the raw attributes of each kind that the projector or the formatter reads
FullFields(kind) ==
  CASE kind = "instance" ->
         {"id", "name", "status", "flavor", "image", "addresses",
          "created_at"}
    [] kind = "volume" ->
         {"id", "name", "status", "size", "volume_type", "bootable",
          "created_at", "attachments", "availability_zone"}
    [] kind = "network" ->
         {"id", "name", "status", "shared", "router:external", "mtu",
          "subnets", "availability_zones", "created_at", "project_id"}
    [] kind = "image" ->
         {"id", "name", "status", "size", "disk_format", "container_format",
          "min_disk", "min_ram", "created_at", "updated_at", "visibility",
          "protected", "owner_id"}
    [] kind = "compute_service" ->
         {"id", "binary", "host", "state", "status", "zone", "updated_at",
          "disabled_reason"}
    [] kind = "network_agent" ->
         {"id", "agent_type", "host", "is_alive", "is_admin_state_up",
          "binary", "created_at", "heartbeat_timestamp",
          "availability_zone"}
    [] kind = "volume_service" ->
         {"id", "binary", "host", "status", "zone", "updated_at"}
    [] OTHER ->
         {"id", "name", "type", "description", "is_enabled"}

BooleanFields ==
  {"shared", "router:external", "protected", "is_alive",
   "is_admin_state_up", "is_enabled", "bootable"}

\* the value of field f in a record that carries every field
FullValue(f, i) ==
  CASE f = "id" -> IdAt(i)
    [] f \in {"name", "binary", "agent_type", "host", "type"} -> NameStr
    [] f \in {"flavor", "image"} -> Dict(TRUE, <<"f", "1">>)
    [] f = "addresses" -> EmptyDict
    [] f \in BooleanFields -> Bool(TRUE)
    [] f \in {"size", "mtu", "min_disk", "min_ram"} -> Num(10)
    [] f \in {"attachments", "subnets", "availability_zones"} -> List(1)
    [] OTHER -> Str(<<"u", "p">>)

FullRecord(kind, i) == [f \in FullFields(kind) |-> FullValue(f, i)]

\* the other values a field takes, besides being absent
Alternatives(f) ==
  {Null} \cup
  CASE f = "bootable" ->
         {Bool(FALSE), TrueString, Str(<<"f", "a", "l", "s", "e">>)}
    [] f \in BooleanFields -> {Bool(FALSE)}
    [] f = "size" ->
         {Num(0), Num(MiB \div 8), Num(MiB), Num(3 * (MiB \div 2)),
          Num(1024 * MiB), Num(1024 * MiB + 1), Num(1536 * MiB)}
    [] f \in {"flavor", "image"} -> {EmptyDict}
    [] f \in {"attachments", "subnets", "availability_zones"} -> {List(0)}
    [] OTHER -> {}

\* a record with one field removed (v = Absent) or changed, or unchanged
Vary(rec, f, v) ==
  IF f \notin DOMAIN rec THEN rec
  ELSE IF v = Absent THEN [g \in DOMAIN rec \ {f} |-> rec[g]]
  ELSE [g \in DOMAIN rec |-> IF g = f THEN v ELSE rec[g]]

Variations(kind) ==
  {<<"", Absent>>} \cup
  UNION {{<<f, v>> : v \in {Absent} \cup Alternatives(f)} :
           f \in FullFields(kind) \ {"id"}}

\* enumerations of at most MaxRecords records, at most one of them varied
VariedClouds(kind) ==
  {<<>>} \cup
  UNION {{[i \in 1..n |->
             IF i = p THEN Vary(FullRecord(kind, i), fv[1], fv[2])
             ELSE FullRecord(kind, i)] :
            p \in 1..n, fv \in Variations(kind)} : n \in 1..MaxRecords}

\* the volumes alpha, beta and gamma-alpha of the round-trip scenario
RoundTripVolume(i, name, status, size) ==
  [f \in {"id", "name", "status", "size"} |->
     CASE f = "id"     -> IdAt(i)
       [] f = "name"   -> Str(name)
       [] f = "status" -> Str(<<status>>)
       [] OTHER        -> Num(size)]

Alpha == <<"a", "l", "p", "h", "a">>

RoundTripCloud ==
  <<RoundTripVolume(1, Alpha, "available", 10),
    RoundTripVolume(2, <<"b", "e", "t", "a">>, "in-use", 20),
    RoundTripVolume(3, <<"g", "a", "m", "m", "a", "-">> \o Alpha, "error", 5)>>

\* -------------------------------------------------------------------- state
VARIABLES
  pc,            \* where each request is
  tool,          \* the tool name it was called with
  arguments,     \* the argument mapping it was called with
  kind,          \* the kind of the processor it was dispatched to
  fetcher,       \* the kind of the worker function bound to the processor
  filter_value, limit, detail_level,    \* the processor's parameters
  raw,           \* the enumeration's result
  filtered,      \* ... after the filter
  limited,       \* ... after the [:limit] slice
  results,       \* the projected records appended so far
  err,           \* str(err) of the exception caught by the processor
  exc,           \* the exception that left call_tool
  text,          \* the text returned
  conns,         \* connections the request has opened
  log            \* the request's events, in order

vars == <<pc, tool, arguments, kind, fetcher, filter_value, limit,
          detail_level, raw, filtered, limited, results, err, exc, text,
          conns, log>>

callVars ==
  <<tool, arguments, kind, fetcher, filter_value, limit, detail_level>>

workVars == <<raw, filtered, limited, results>>

\* the argument mappings built from optional filter, limit and detail_level
MkArguments(fo, lo, do) ==
  [k \in (IF fo # Absent THEN {"filter"} ELSE {})
         \cup (IF lo # Absent THEN {"limit"} ELSE {})
         \cup (IF do # Absent THEN {"detail_level"} ELSE {}) |->
     IF k = "filter" THEN fo ELSE IF k = "limit" THEN lo ELSE do]

ArgumentsOver(filters, limits, levels) ==
  {MkArguments(fo, lo, do) :
     fo \in {Absent} \cup {Str(x) : x \in filters},
     lo \in {Absent} \cup {Num(k) : k \in limits},
     do \in {Absent} \cup {Str(<<l>>) : l \in levels}}

\* ------------------------------------------------------------------ actions
Idle ==
  /\ pc = [r \in Reqs |-> "idle"]
  /\ tool = [r \in Reqs |-> ""]
  /\ arguments = [r \in Reqs |-> <<>>]
  /\ kind = [r \in Reqs |-> ""]
  /\ fetcher = [r \in Reqs |-> ""]
  /\ filter_value = [r \in Reqs |-> <<>>]
  /\ limit = [r \in Reqs |-> 0]
  /\ detail_level = [r \in Reqs |-> ""]
  /\ raw = [r \in Reqs |-> <<>>]
  /\ filtered = [r \in Reqs |-> <<>>]
  /\ limited = [r \in Reqs |-> <<>>]
  /\ results = [r \in Reqs |-> <<>>]
  /\ err = [r \in Reqs |-> <<>>]
  /\ exc = [r \in Reqs |-> NoExc]
  /\ text = [r \in Reqs |-> NoText]
  /\ conns = [r \in Reqs |-> 0]
  /\ log = [r \in Reqs |-> <<>>]

\* call_tool: an unknown name raises at once; a known one reads the three
\* arguments with their defaults and enters the processor of its kind with
\* the get_*_with_config function of its branch
CallTool(r, name, args) ==
  /\ pc[r] = "idle"
  /\ tool' = [tool EXCEPT ![r] = name]
  /\ arguments' = [arguments EXCEPT ![r] = args]
  /\ IF name \in ToolNames
       THEN /\ kind' = [kind EXCEPT ![r] = ToolKind(name)]
            /\ fetcher' = [fetcher EXCEPT ![r] = ToolFetcher(name)]
            /\ filter_value' =
                 [filter_value EXCEPT ![r] = ArgGet(args, "filter", Str(<<>>)).s]
            /\ limit' =
                 [limit EXCEPT ![r] = ArgGet(args, "limit", Num(DefaultLimit)).n]
            /\ detail_level' =
                 [detail_level EXCEPT
                    ![r] = ArgGet(args, "detail_level", Str(<<"detailed">>)).s[1]]
            /\ pc' = [pc EXCEPT ![r] = "start"]
            /\ exc' = exc
       ELSE /\ exc' = [exc EXCEPT ![r] = Exc("ValueError", <<"Unknown tool: ", name>>)]
            /\ pc' = [pc EXCEPT ![r] = "raised"]
            /\ UNCHANGED <<kind, fetcher, filter_value, limit, detail_level>>
  /\ UNCHANGED <<workVars, err, text, conns, log>>

\* mutant: a failed "starting" send is ignored and the query goes on
NotifyStartingBestEffort(r) ==
  /\ pc[r] = "start"
  /\ \E delivered \in BOOLEAN :
       IF delivered
         THEN log' = [log EXCEPT ![r] =
                Append(@, Notification("info", "starting", 0, <<>>, r))]
         ELSE log' = [log EXCEPT ![r] = Append(@, Step("send_failed", r))]
  /\ pc' = [pc EXCEPT ![r] = "invoke"]
  /\ UNCHANGED <<callVars, workVars, err, exc, text, conns>>

\* await send_log_message(level="info", data=<starting>): the send either
\* delivers the notification or raises, outside the try block
NotifyStarting(r) ==
  /\ pc[r] = "start"
  /\ \E delivered \in BOOLEAN :
       IF delivered
         THEN /\ log' = [log EXCEPT ![r] =
                   Append(@, Notification("info", "starting", 0, <<>>, r))]
              /\ pc' = [pc EXCEPT ![r] = "invoke"]
              /\ exc' = exc
         ELSE /\ log' = [log EXCEPT ![r] = Append(@, Step("send_failed", r))]
              /\ exc' = [exc EXCEPT ![r] = Exc("ChannelError", ChannelFailure)]
              /\ pc' = [pc EXCEPT ![r] = "raised"]
  /\ UNCHANGED <<callVars, workVars, err, text, conns>>

\* await get_*_func(filter_value, limit, detail_level): the worker starts
\* mutant: the processor calls the fetcher again when the fetch has failed
InvokePipelineRetrying(r) ==
  /\ \/ pc[r] = "invoke"
     \/ /\ pc[r] = "except"
        /\ err[r] \in {ConnectionFailure, EnumerationFailure}
        /\ Len(log[r]) < 6
  /\ log' = [log EXCEPT ![r] = Append(@, Step("invoke", r))]
  /\ pc' = [pc EXCEPT ![r] = "connect"]
  /\ UNCHANGED <<callVars, workVars, err, exc, text, conns>>

InvokePipeline(r) ==
  /\ pc[r] = "invoke"
  /\ log' = [log EXCEPT ![r] = Append(@, Step("invoke", r))]
  /\ pc' = [pc EXCEPT ![r] = "connect"]
  /\ UNCHANGED <<callVars, workVars, err, exc, text, conns>>

\* mutant: the connection is the one of a pool, whoever asks
ConnectPooled(r) ==
  /\ pc[r] = "connect"
  /\ \E ok \in BOOLEAN :
       IF ok
         THEN /\ conns' = [conns EXCEPT ![r] = @ + 1]
              /\ log' = [log EXCEPT ![r] =
                   Append(@, Event("connect", "", "", 0, StoredCredentials, r))]
              /\ pc' = [pc EXCEPT ![r] = "list"]
              /\ err' = err
         ELSE /\ err' = [err EXCEPT ![r] = ConnectionFailure]
              /\ log' = [log EXCEPT ![r] = Append(@, Step("connect_failed", r))]
              /\ pc' = [pc EXCEPT ![r] = "except"]
              /\ conns' = conns
  /\ UNCHANGED <<callVars, workVars, exc, text>>

\* conn = connection.Connection(**kwargs), kwargs being the openstack_config
\* the get_*_with_config closure passes on: a new object, local to the
\* worker of request r and identified here by r
Connect(r) ==
  /\ pc[r] = "connect"
  /\ \E ok \in BOOLEAN :
       IF ok
         THEN /\ conns' = [conns EXCEPT ![r] = @ + 1]
              /\ log' = [log EXCEPT ![r] =
                   Append(@, Event("connect", "", "", r, StoredCredentials, r))]
              /\ pc' = [pc EXCEPT ![r] = "list"]
              /\ err' = err
         ELSE /\ err' = [err EXCEPT ![r] = ConnectionFailure]
              /\ log' = [log EXCEPT ![r] = Append(@, Step("connect_failed", r))]
              /\ pc' = [pc EXCEPT ![r] = "except"]
              /\ conns' = conns
  /\ UNCHANGED <<callVars, workVars, exc, text>>

\* mutant: a failed enumeration is swallowed and counts as no records
EnumerateSwallowing(r, clouds) ==
  /\ pc[r] = "list"
  /\ \/ /\ \E xs \in clouds : raw' = [raw EXCEPT ![r] = xs]
        /\ log' = [log EXCEPT ![r] = Append(@, Step("list", r))]
     \/ /\ raw' = [raw EXCEPT ![r] = <<>>]
        /\ log' = [log EXCEPT ![r] = Append(@, Step("list_failed", r))]
  /\ pc' = [pc EXCEPT ![r] = "filter"]
  /\ UNCHANGED <<callVars, filtered, limited, results, err, exc, text, conns>>

\* xs = list(conn.<service>.<kind>s())
Enumerate(r, clouds) ==
  /\ pc[r] = "list"
  /\ \/ /\ \E xs \in clouds : raw' = [raw EXCEPT ![r] = xs]
        /\ log' = [log EXCEPT ![r] = Append(@, Step("list", r))]
        /\ pc' = [pc EXCEPT ![r] = "filter"]
        /\ err' = err
     \/ /\ err' = [err EXCEPT ![r] = EnumerationFailure]
        /\ log' = [log EXCEPT ![r] = Append(@, Step("list_failed", r))]
        /\ pc' = [pc EXCEPT ![r] = "except"]
        /\ raw' = raw
  /\ UNCHANGED <<callVars, filtered, limited, results, exc, text, conns>>

\* if filter_value: xs = [x for x in xs if ...]
Filter(r) ==
  /\ pc[r] = "filter"
  /\ IF FilterRaises(fetcher[r], raw[r], filter_value[r])
       THEN /\ err' = [err EXCEPT ![r] = AttributeError]
            /\ pc' = [pc EXCEPT ![r] = "except"]
            /\ filtered' = filtered
       ELSE /\ filtered' = [filtered EXCEPT
                 ![r] = ApplyFilter(fetcher[r], raw[r], filter_value[r])]
            /\ pc' = [pc EXCEPT ![r] = "limit"]
            /\ err' = err
  /\ UNCHANGED <<callVars, raw, limited, results, exc, text, conns, log>>

\* xs = xs[:limit]; results = []
Limit(r) ==
  /\ pc[r] = "limit"
  /\ limited' = [limited EXCEPT ![r] = ApplyLimit(filtered[r], limit[r])]
  /\ results' = [results EXCEPT ![r] = <<>>]
  /\ pc' = [pc EXCEPT ![r] = "project"]
  /\ UNCHANGED <<callVars, raw, filtered, err, exc, text, conns, log>>

\* one iteration of `for x in xs:`: project x at the tier, look up the
\* endpoints of an identity service, append
ProjectNext(r) ==
  /\ pc[r] = "project"
  /\ Len(results[r]) < Len(limited[r])
  /\ LET rec  == limited[r][Len(results[r]) + 1]
         info == Project(fetcher[r], rec, detail_level[r])
     IN IF ProjectRaises(fetcher[r], rec, detail_level[r])
          THEN /\ err' = [err EXCEPT ![r] = AttributeError]
               /\ pc' = [pc EXCEPT ![r] = "except"]
               /\ UNCHANGED <<results, log>>
          ELSE IF ~NeedsEndpoints(fetcher[r], detail_level[r])
          THEN /\ results' = [results EXCEPT ![r] = Append(@, info)]
               /\ UNCHANGED <<pc, err, log>>
          ELSE IF "id" \notin DOMAIN rec
          THEN /\ err' = [err EXCEPT ![r] = AttributeError]
               /\ pc' = [pc EXCEPT ![r] = "except"]
               /\ UNCHANGED <<results, log>>
          ELSE \/ \E k \in 0..MaxEndpoints :
                    /\ results' = [results EXCEPT
                         ![r] = Append(@, WithEndpoints(info, k))]
                    /\ log' = [log EXCEPT ![r] =
                         Append(@, Event("endpoints", "", "", k, rec["id"].s, r))]
                    /\ UNCHANGED <<pc, err>>
               \/ /\ err' = [err EXCEPT ![r] = EndpointFailure]
                  /\ log' = [log EXCEPT ![r] =
                       Append(@, Event("endpoints_failed", "", "", 0, rec["id"].s, r))]
                  /\ pc' = [pc EXCEPT ![r] = "except"]
                  /\ results' = results
  /\ UNCHANGED <<callVars, raw, filtered, limited, exc, text, conns>>

\* return results: the awaiting processor resumes with the list
WorkerReturn(r) ==
  /\ pc[r] = "project"
  /\ Len(results[r]) = Len(limited[r])
  /\ pc' = [pc EXCEPT ![r] = "completed"]
  /\ UNCHANGED <<callVars, workVars, err, exc, text, conns, log>>

\* mutant: the count is one too many
CompletedCountOffByOne(xs) == Len(xs) + 1

\* len(xs) in the "completed" notification
CompletedCount(xs) == Len(xs)

\* mutant: the task goes on while its worker is still projecting
NotifyCompletedEarly(r) ==
  /\ pc[r] \in {"project", "completed"}
  /\ log' = [log EXCEPT ![r] = Append(@,
       Notification("info", "completed", CompletedCount(results[r]), <<>>, r))]
  /\ pc' = [pc EXCEPT ![r] = "format"]
  /\ UNCHANGED <<callVars, workVars, err, exc, text, conns>>

\* await send_log_message(level="info", data=<got N>), inside the try block
NotifyCompleted(r) ==
  /\ pc[r] = "completed"
  /\ \E delivered \in BOOLEAN :
       IF delivered
         THEN /\ log' = [log EXCEPT ![r] = Append(@,
                   Notification("info", "completed", CompletedCount(results[r]), <<>>, r))]
              /\ pc' = [pc EXCEPT ![r] = "format"]
              /\ err' = err
         ELSE /\ log' = [log EXCEPT ![r] = Append(@, Step("send_failed", r))]
              /\ err' = [err EXCEPT ![r] = ChannelFailure]
              /\ pc' = [pc EXCEPT ![r] = "except"]
  /\ UNCHANGED <<callVars, workVars, exc, text, conns>>

\* summary = format_*_summary(xs, detail_level); return [TextContent(summary)]
FormatAndReturn(r) ==
  /\ pc[r] = "format"
  /\ IF FormatRaises(kind[r], results[r])
       THEN /\ err' = [err EXCEPT ![r] = KeyError]
            /\ pc' = [pc EXCEPT ![r] = "except"]
            /\ UNCHANGED <<text, log>>
       ELSE /\ text' = [text EXCEPT ![r] = FormatSummary(kind[r], results[r], detail_level[r])]
            /\ log' = [log EXCEPT ![r] = Append(@, Step("return", r))]
            /\ pc' = [pc EXCEPT ![r] = "returned"]
            /\ err' = err
  /\ UNCHANGED <<callVars, workVars, exc, conns>>

\* mutant: the failure is kept in a module-level variable every request sees
NotifyErrorGlobal(r) ==
  /\ pc[r] = "except"
  /\ log' = [log EXCEPT ![r] = Append(@,
       Notification("error", "error", 0, ErrorMessage(kind[r], err[r]), r))]
  /\ exc' = [q \in Reqs |-> Exc("ValueError", ErrorMessage(kind[r], err[r]))]
  /\ pc' = [pc EXCEPT ![r] = "raised"]
  /\ UNCHANGED <<callVars, workVars, err, text, conns>>

\* except Exception as err: send the error notification, then raise
\* ValueError(error_message); a send that raises replaces the ValueError
NotifyError(r) ==
  /\ pc[r] = "except"
  /\ \E delivered \in BOOLEAN :
       IF delivered
         THEN /\ log' = [log EXCEPT ![r] = Append(@,
                   Notification("error", "error", 0, ErrorMessage(kind[r], err[r]), r))]
              /\ exc' = [exc EXCEPT
                   ![r] = Exc("ValueError", ErrorMessage(kind[r], err[r]))]
         ELSE /\ log' = [log EXCEPT ![r] = Append(@, Step("send_failed", r))]
              /\ exc' = [exc EXCEPT ![r] = Exc("ChannelError", ChannelFailure)]
  /\ pc' = [pc EXCEPT ![r] = "raised"]
  /\ UNCHANGED <<callVars, workVars, err, text, conns>>

\* ------------------------------------------------------------ specifications
\* One request from call_tool to its return or failure.
ToolInputs == ToolNames \cup {"get_flavors"}

ProcArguments == ArgumentsOver(FilterValues, LimitValues, LevelValues)

\* where the worker thread of a request is at work
WorkerStates == {"connect", "list", "filter", "limit", "project"}

CancelledError == Exc("CancelledError", <<>>)

\* mutant: abandoning the request ends its fetch on the spot
CancelStoppingFetch(r) ==
  /\ pc[r] \in WorkerStates
  /\ ~ \E i \in 1..Len(log[r]) : log[r][i].ev = "cancel"
  /\ log' = [log EXCEPT ![r] = Append(@, Step("cancel", r))]
  /\ pc' = [pc EXCEPT ![r] = "cancelled"]
  /\ exc' = [exc EXCEPT ![r] = CancelledError]
  /\ UNCHANGED <<callVars, workVars, err, text, conns>>

\* the caller abandons request r while its task is suspended in
\* await anyio.to_thread.run_sync(worker): the call is made with its
\* defaults, the worker is a thread nobody interrupts, and the task stays
\* in the await until the thread is done
Cancel(r) ==
  /\ pc[r] \in WorkerStates
  /\ ~ \E i \in 1..Len(log[r]) : log[r][i].ev = "cancel"
  /\ log' = [log EXCEPT ![r] = Append(@, Step("cancel", r))]
  /\ UNCHANGED <<pc, callVars, workVars, err, exc, text, conns>>

\* the abandoned task resumes after its worker and meets the cancellation
\* at its next await, the send of the 'completed' or of the 'error'
\* notification: CancelledError is not an Exception, so it passes the
\* processor's except clause and nothing is sent
DeliverCancel(r) ==
  /\ pc[r] \in {"completed", "except"}
  /\ \E i \in 1..Len(log[r]) : log[r][i].ev = "cancel"
  /\ pc' = [pc EXCEPT ![r] = "cancelled"]
  /\ exc' = [exc EXCEPT ![r] = CancelledError]
  /\ UNCHANGED <<callVars, workVars, err, text, conns, log>>

Init == Idle

Next ==
  \/ \E name \in ToolInputs, args \in ProcArguments : CallTool(1, name, args)
  \/ NotifyStarting(1)
  \/ InvokePipeline(1)
  \/ Connect(1)
  \/ Enumerate(1, NarrowClouds(fetcher[1]))
  \/ Filter(1)
  \/ Limit(1)
  \/ ProjectNext(1)
  \/ WorkerReturn(1)
  \/ NotifyCompleted(1)
  \/ FormatAndReturn(1)
  \/ NotifyError(1)

Spec == Init /\ [][Next]_vars

\* The worker's pure part (filter, limit, project) on every enumeration
\* result, filter, limit and tier of the input sets.
InitPipe ==
  \E k \in Kinds, fv \in FilterValues, lim \in LimitValues,
     dl \in LevelValues :
    \E xs \in WideClouds(k) :
      /\ pc = [r \in Reqs |-> IF r = 1 THEN "filter" ELSE "idle"]
      /\ tool = [r \in Reqs |-> ""]
      /\ arguments = [r \in Reqs |-> <<>>]
      /\ kind = [r \in Reqs |-> IF r = 1 THEN k ELSE ""]
      /\ fetcher = [r \in Reqs |-> IF r = 1 THEN k ELSE ""]
      /\ filter_value = [r \in Reqs |-> IF r = 1 THEN fv ELSE <<>>]
      /\ limit = [r \in Reqs |-> IF r = 1 THEN lim ELSE 0]
      /\ detail_level = [r \in Reqs |-> IF r = 1 THEN dl ELSE ""]
      /\ raw = [r \in Reqs |-> IF r = 1 THEN xs ELSE <<>>]
      /\ filtered = [r \in Reqs |-> <<>>]
      /\ limited = [r \in Reqs |-> <<>>]
      /\ results = [r \in Reqs |-> <<>>]
      /\ err = [r \in Reqs |-> <<>>]
      /\ exc = [r \in Reqs |-> NoExc]
      /\ text = [r \in Reqs |-> NoText]
      /\ conns = [r \in Reqs |-> 0]
      /\ log = [r \in Reqs |-> <<>>]

NextPipe ==
  \/ Filter(1)
  \/ Limit(1)
  \/ ProjectNext(1)
  \/ WorkerReturn(1)

SpecPipe == InitPipe /\ [][NextPipe]_vars

\* The worker's pure part followed by the processor's completion, on
\* enumerations whose records lack or vary one field at a time.

\* request 1 has just received the enumeration xs
StartAt(k, xs, fv, lim, dl) ==
  /\ pc = [r \in Reqs |-> IF r = 1 THEN "filter" ELSE "idle"]
  /\ tool = [r \in Reqs |-> ""]
  /\ arguments = [r \in Reqs |-> <<>>]
  /\ kind = [r \in Reqs |-> IF r = 1 THEN k ELSE ""]
  /\ fetcher = [r \in Reqs |-> IF r = 1 THEN k ELSE ""]
  /\ filter_value = [r \in Reqs |-> IF r = 1 THEN fv ELSE <<>>]
  /\ limit = [r \in Reqs |-> IF r = 1 THEN lim ELSE 0]
  /\ detail_level = [r \in Reqs |-> IF r = 1 THEN dl ELSE ""]
  /\ raw = [r \in Reqs |-> IF r = 1 THEN xs ELSE <<>>]
  /\ filtered = [r \in Reqs |-> <<>>]
  /\ limited = [r \in Reqs |-> <<>>]
  /\ results = [r \in Reqs |-> <<>>]
  /\ err = [r \in Reqs |-> <<>>]
  /\ exc = [r \in Reqs |-> NoExc]
  /\ text = [r \in Reqs |-> NoText]
  /\ conns = [r \in Reqs |-> 0]
  /\ log = [r \in Reqs |-> <<>>]

InitFmt ==
  \/ \E k \in Kinds, dl \in LevelValues :
       \E xs \in VariedClouds(k) : StartAt(k, xs, <<>>, DefaultLimit, dl)
  \/ \E fv \in {Alpha, <<"b", "e", "t", "a">>}, lim \in {1, 10},
        dl \in LevelValues :
       StartAt("volume", RoundTripCloud, fv, lim, dl)

NextFmt ==
  \/ Filter(1)
  \/ Limit(1)
  \/ ProjectNext(1)
  \/ WorkerReturn(1)
  \/ NotifyCompleted(1)
  \/ FormatAndReturn(1)
  \/ NotifyError(1)

SpecFmt == InitFmt /\ [][NextFmt]_vars

\* Several requests at once, each from call_tool to its return or
\* failure, their steps interleaved in any order.
ConcTools == {"get_volumes", "get_services"}

ConcArguments == {MkArguments(Absent, Absent, Absent)}

\* the enumerations of the concurrent runs: one complete record
ConcClouds(k) == {<<FullRecord(k, 1)>>}

\* one step of request r
RequestStep(r) ==
  \/ NotifyStarting(r)
  \/ InvokePipeline(r)
  \/ Connect(r)
  \/ Enumerate(r, ConcClouds(fetcher[r]))
  \/ Filter(r)
  \/ Limit(r)
  \/ ProjectNext(r)
  \/ WorkerReturn(r)
  \/ NotifyCompleted(r)
  \/ FormatAndReturn(r)
  \/ NotifyError(r)

InitConc == Idle

NextConc ==
  \E r \in Reqs :
    \/ \E name \in ConcTools, args \in ConcArguments : CallTool(r, name, args)
    \/ RequestStep(r)

SpecConc == InitConc /\ [][NextConc]_vars

\* The event loop runs every task that is ready and the thread pool every
\* worker it was given: a request that can take a step eventually does.
Fairness == \A r \in Reqs : WF_vars(RequestStep(r))

LiveTools == {"get_volumes"}

NextLive ==
  \E r \in Reqs :
    \/ \E name \in LiveTools, args \in ConcArguments : CallTool(r, name, args)
    \/ RequestStep(r)

SpecLive == InitConc /\ [][NextLive]_vars /\ Fairness

\* one request, which its caller may abandon during the fetch; whether the
\* send that follows the worker sees the cancellation is the transport's
\* business, so both continuations are steps
NextAbandon ==
  \/ \E name \in ConcTools, args \in ConcArguments : CallTool(1, name, args)
  \/ RequestStep(1)
  \/ Cancel(1)
  \/ DeliverCancel(1)

SpecAbandon == InitConc /\ [][NextAbandon]_vars /\ Fairness

\* =================================================================== claims
\* positions of the log of request r holding a given event
Has(r, ev) == \E i \in 1..Len(log[r]) : log[r][i].ev = ev

IsNote(e, what) == e.ev = "notify" /\ e.what = what

PipelineCauses ==
  {ConnectionFailure, EnumerationFailure, EndpointFailure, AttributeError}

\* the pipeline raised and the processor caught it
PipelineFailed(r) == pc[r] \in {"except", "raised"} /\ err[r] \in PipelineCauses

\* the filter comprehension raised (no slice was ever taken)
FilterFailed(r) ==
  /\ pc[r] \in {"except", "raised"}
  /\ err[r] = AttributeError
  /\ filter_value[r] # <<>>
  /\ limited[r] = <<>> /\ filtered[r] = <<>>
  /\ FilterRaises(kind[r], raw[r], filter_value[r])

\* the filter step has run to its end
FilterDone(r) ==
  pc[r] \in {"limit", "project", "completed", "format", "returned"}
  \/ (pc[r] \in {"except", "raised"} /\ Has(r, "list") /\ ~FilterFailed(r))

\* the worker has returned its list to the processor
PipelineReturned(r) == pc[r] \in {"completed", "format", "returned"}

Min(a, b) == IF a < b THEN a ELSE b

Max(a, b) == IF a > b THEN a ELSE b

\* ---- C1
\* C1: in every invocation the "starting" notification precedes the
\* pipeline call; a "completed" notification comes after the pipeline call and
\* carries N = len(result); the text is returned only after the "completed"
\* notification, so a returned request shows starting < invoke < completed <
\* return in its log.
C1_Order ==
  \A r \in Reqs :
    /\ \A j \in 1..Len(log[r]) :
         log[r][j].ev = "invoke" =>
           \E i \in 1..(j - 1) : IsNote(log[r][i], "starting")
    /\ \A k \in 1..Len(log[r]) :
         IsNote(log[r][k], "completed") =>
           /\ log[r][k].level = "info"
           /\ log[r][k].n = Len(results[r])
           /\ Len(results[r]) = Len(limited[r])
           /\ \E j \in 1..(k - 1) : log[r][j].ev = "invoke"
    /\ (pc[r] = "returned" \/ text[r] # NoText) =>
         \E i, j, k, l \in 1..Len(log[r]) :
           /\ i < j /\ j < k /\ k < l /\ l = Len(log[r])
           /\ IsNote(log[r][i], "starting") /\ log[r][i].level = "info"
           /\ log[r][j].ev = "invoke"
           /\ IsNote(log[r][k], "completed")
           /\ log[r][l].ev = "return"

C1_Witness ==
  /\ pc[1] = "returned"
  /\ Len(results[1]) = 2
  /\ \E k \in 1..Len(log[1]) :
       IsNote(log[1][k], "completed") /\ log[1][k].n = 2

\* ---- C2
\* C2: whenever the pipeline raises, by the time the failure has reached the
\* caller an error-level notification carrying the cause has been emitted and
\* the failure's message contains the cause text.
C2_ErrorNotifiedThenRaised ==
  \A r \in Reqs :
    (pc[r] = "raised" /\ PipelineFailed(r)) =>
      /\ \E i \in 1..Len(log[r]) :
           /\ IsNote(log[r][i], "error") /\ log[r][i].level = "error"
           /\ Contains(err[r], log[r][i].data)
      /\ Contains(err[r], exc[r].msg)

\* ---- C3
\* C3: on any failure from the pipeline the failure leaving the processor is
\* ValueError("failed to retrieve <kind> information: <cause>"), whether or
\* not the error notification could be sent.
C3_TypedFailure ==
  \A r \in Reqs :
    (pc[r] = "raised" /\ PipelineFailed(r)) =>
      /\ exc[r].type = "ValueError"
      /\ exc[r].msg = ErrorMessage(kind[r], err[r])

\* ---- C4
\* C4: a failed "starting" send ends the invocation in failure with the
\* pipeline never invoked, no connection opened and no text; a failed
\* "completed" send after a successful fetch ends it in failure with no text.
C4_NotificationFailureFatal ==
  \A r \in Reqs :
    /\ (Len(log[r]) >= 1 /\ log[r][1].ev = "send_failed") =>
         /\ pc[r] = "raised" /\ exc[r] # NoExc
         /\ text[r] = NoText /\ conns[r] = 0
         /\ Len(log[r]) = 1
    /\ (\E i \in 2..Len(log[r]) :
          /\ log[r][i].ev = "send_failed"
          /\ log[r][i - 1].ev \notin {"connect_failed", "list_failed",
                                       "endpoints_failed", "send_failed"}
          /\ err[r] = ChannelFailure) =>
         /\ pc[r] \in {"except", "raised"}
         /\ pc[r] = "raised" => exc[r] # NoExc
         /\ text[r] = NoText /\ ~Has(r, "return")

C4_Witness ==
  /\ pc[1] = "raised" /\ err[1] = ChannelFailure
  /\ Has(1, "list") /\ Len(results[1]) >= 1
  /\ text[1] = NoText

\* ---- C5
\* C5: when the connection, the primary enumeration or the endpoint lookup
\* of any one identity service fails, the request returns no text and ends
\* in failure, whatever was gathered before.
C5_AllOrNothing ==
  \A r \in Reqs :
    (Has(r, "connect_failed") \/ Has(r, "list_failed")
       \/ Has(r, "endpoints_failed")) =>
      /\ pc[r] \in {"except", "raised"}
      /\ pc[r] = "raised" => exc[r] # NoExc
      /\ text[r] = NoText /\ ~Has(r, "return")

C5_Witness ==
  /\ pc[1] = "raised" /\ Has(1, "endpoints_failed")
  /\ Len(results[1]) >= 1 /\ text[1] = NoText

\* ---- C6
\* the name-like fields the claim declares for each kind
NameLikeFields(k) ==
  CASE k \in {"compute_service", "volume_service"} -> {"binary", "host"}
    [] k = "network_agent" -> {"agent_type", "host"}
    [] k = "service"       -> {"name", "type"}
    [] OTHER               -> {"name"}

\* inclusion as the Filter Predicate contract states it
Included(k, rec, fv) ==
  \/ fv = <<>>
  \/ \E f \in NameLikeFields(k) :
       /\ f \in DOMAIN rec /\ rec[f].t = "str"
       /\ Contains(Lower(fv), Lower(rec[f].s))
  \/ /\ "id" \in DOMAIN rec /\ rec["id"].t = "str"
     /\ Contains(fv, rec["id"].s)

IncludedOf(k, xs, fv) ==
  LET Keep(x) == Included(k, x, fv) IN SelectSeq(xs, Keep)

\* C6: for every kind and record, once the filter step is over the records
\* kept are exactly those the contract includes: all of them for an empty
\* filter, otherwise those with a name-like field containing the filter
\* case-insensitively or an id containing it case-sensitively.
C6_FilterContract ==
  \A r \in Reqs :
    (FilterDone(r) \/ FilterFailed(r)) =>
      filtered[r] = IncludedOf(kind[r], raw[r], filter_value[r])

\* ---- C7
\* C7: a record whose name-like field is absent or null never makes the
\* filter step fail.
C7_FilterNeverFails == \A r \in Reqs : ~FilterFailed(r)

\* ---- C8
RECURSIVE IsSubsequence(_, _)
IsSubsequence(a, b) ==
  IF a = <<>> THEN TRUE
  ELSE IF b = <<>> THEN FALSE
  ELSE IF Head(a) = Head(b) THEN IsSubsequence(Tail(a), Tail(b))
  ELSE IsSubsequence(a, Tail(b))

\* C8: the filter's result is a sub-sequence of the fetched sequence in its
\* original order, and filtering it again with the same filter returns it
\* unchanged.
C8_FilterIdempotent ==
  \A r \in Reqs :
    FilterDone(r) =>
      /\ IsSubsequence(filtered[r], raw[r])
      /\ ~FilterRaises(kind[r], filtered[r], filter_value[r])
      /\ ApplyFilter(kind[r], filtered[r], filter_value[r]) = filtered[r]

C8_Witness ==
  /\ FilterDone(1) /\ filter_value[1] # <<>>
  /\ Len(raw[1]) = 2 /\ Len(filtered[1]) = 1
  /\ filtered[1][1] = raw[1][2]

IsProjectionOf(k, rec, dl, out) ==
  IF NeedsEndpoints(k, dl)
    THEN \E n \in 0..MaxEndpoints : out = WithEndpoints(Project(k, rec, dl), n)
    ELSE out = Project(k, rec, dl)

\* C10: the result is the projections, in fetch order and with none skipped,
\* of a prefix of the records the filter contract includes; for limit >= 0
\* that prefix has exactly min(limit, len(filtered)) records, so the filter
\* is applied before the limit.
C10_FirstNOfFiltered ==
  \A r \in Reqs :
    PipelineReturned(r) =>
      LET inc == IncludedOf(kind[r], raw[r], filter_value[r])
      IN /\ Len(results[r]) <= Len(inc)
         /\ \A i \in 1..Len(results[r]) :
              IsProjectionOf(kind[r], inc[i], detail_level[r], results[r][i])
         /\ limit[r] >= 0 => Len(results[r]) = Min(limit[r], Len(inc))

C10_Witness ==
  /\ PipelineReturned(1) /\ limit[1] = 1 /\ filter_value[1] = <<"v", "2">>
  /\ Len(raw[1]) = 2 /\ Len(results[1]) = 1
  /\ results[1][1]["id"] = raw[1][2]["id"]

\* the text of the kind's fixed "no results" sentence
EmptyText(k) ==
  [some |-> TRUE, empty |-> TRUE, kind |-> k, count |-> 0,
   numbers |-> <<>>, blocks |-> <<>>]

\* the "completed" notifications delivered for request r, as their counts
CompletedCounts(r) ==
  LET IsCompleted(e) == IsNote(e, "completed")
      notes == SelectSeq(log[r], IsCompleted)
  IN [i \in 1..Len(notes) |-> notes[i].n]

\* C11: when the enumeration returns no record, or none survives filter and
\* limit, the request succeeds: once the "completed" notification (with
\* count 0) is delivered the formatter cannot fail, and the text returned is
\* the kind's fixed "no results" sentence whatever the tier.
C11_EmptyResult ==
  \A r \in Reqs :
    (results[r] = <<>> /\ Has(r, "notify") /\ CompletedCounts(r) # <<>>) =>
      /\ CompletedCounts(r) = <<0>>
      /\ pc[r] \in {"format", "returned"}
      /\ exc[r] = NoExc
      /\ pc[r] = "returned" => text[r] = EmptyText(kind[r])

\* a non-empty enumeration emptied by the filter, answered at tier full
C11_Witness ==
  \E r \in Reqs :
    /\ pc[r] = "returned"
    /\ raw[r] # <<>>
    /\ results[r] = <<>>
    /\ detail_level[r] = "full"
    /\ text[r].empty

\* the worker raised AttributeError after the enumeration had succeeded
WorkerRaised(r) ==
  pc[r] \in {"except", "raised"} /\ err[r] = AttributeError

\* C12: once the enumeration has succeeded, filter, limit and projection
\* never fail, at any tier and for any kind, on a record that lacks an
\* optional field (attribute absent or null).
C12_ProjectionNeverFails == \A r \in Reqs : ~WorkerRaised(r)

\* the service ids of the endpoint enumerations request r has issued
EndpointCalls(r) ==
  LET IsCall(e) == e.ev \in {"endpoints", "endpoints_failed"}
      calls == SelectSeq(log[r], IsCall)
  IN [i \in 1..Len(calls) |-> calls[i].data]

\* C13: for identity services at tiers detailed and full the worker
\* issues one endpoint enumeration per record of the result, in result
\* order and filtered by that record's id, so none for a record the filter
\* or the limit removed; at tier basic, and for every other kind, none.
C13_OneLookupPerService ==
  \A r \in Reqs :
    LET calls == EndpointCalls(r)
    IN IF kind[r] = "service" /\ detail_level[r] \in {"detailed", "full"}
         THEN /\ Len(calls) <= Len(limited[r])
              /\ \A i \in 1..Len(calls) : calls[i] = limited[r][i]["id"].s
              /\ PipelineReturned(r) => Len(calls) = Len(results[r])
              /\ pc[r] = "project" =>
                   Len(calls) \in {Len(results[r]), Len(results[r]) + 1}
         ELSE (kind[r] # "service" \/ detail_level[r] = "basic") =>
                calls = <<>>

\* two services enumerated, one kept: exactly one lookup, for the kept one
C13_Witness ==
  \E r \in Reqs :
    /\ kind[r] = "service"
    /\ detail_level[r] = "full"
    /\ PipelineReturned(r)
    /\ Len(raw[r]) = 2
    /\ Len(results[r]) = 1
    /\ EndpointCalls(r) = <<results[r][1]["id"].s>>

\* C14: a call whose name is not a registered tool name fails at once with
\* the unknown-tool failure: no notification, no connection, no enumeration
\* and no text precede or follow it.
C14_UnknownToolFailsFirst ==
  \A r \in Reqs :
    (pc[r] # "idle" /\ tool[r] \notin ListedTools) =>
      /\ pc[r] = "raised"
      /\ exc[r] = Exc("ValueError", <<"Unknown tool: ", tool[r]>>)
      /\ log[r] = <<>>
      /\ conns[r] = 0
      /\ raw[r] = <<>> /\ results[r] = <<>>
      /\ text[r] = NoText

C14_Witness ==
  \E r \in Reqs :
    /\ tool[r] = "get_flavors"
    /\ "filter" \in DOMAIN arguments[r]
    /\ pc[r] = "raised"
    /\ exc[r].type = "ValueError"

\* C15: for each of the 8 tools the processor receives, for every key of
\* filter, limit and detail_level, the argument's value when the key is
\* present and otherwise the default: the empty string, 100, "detailed".
C15_ArgumentDefaults ==
  \A r \in Reqs :
    (pc[r] # "idle" /\ tool[r] \in ListedTools) =>
      LET args == arguments[r]
      IN /\ filter_value[r] =
              (IF "filter" \in DOMAIN args THEN args["filter"].s ELSE <<>>)
         /\ limit[r] =
              (IF "limit" \in DOMAIN args THEN args["limit"].n ELSE 100)
         /\ detail_level[r] =
              (IF "detail_level" \in DOMAIN args
                 THEN args["detail_level"].s[1] ELSE "detailed")

\* a call carrying only a limit: the filter and the tier are the defaults,
\* and nothing was filtered away
C15_Witness ==
  \E r \in Reqs :
    /\ DOMAIN arguments[r] = {"limit"}
    /\ tool[r] = "get_volume_services"
    /\ pc[r] = "returned"
    /\ limit[r] = 1 /\ filter_value[r] = <<>> /\ detail_level[r] = "detailed"
    /\ Len(raw[r]) = 2 /\ Len(results[r]) = 1

\* tool name, processor kind and fetcher kind that belong together
Routes ==
  {<<"get_instances", "instance">>, <<"get_volumes", "volume">>,
   <<"get_networks", "network">>, <<"get_images", "image">>,
   <<"get_compute_services", "compute_service">>,
   <<"get_network_agents", "network_agent">>,
   <<"get_volume_services", "volume_service">>,
   <<"get_services", "service">>}

\* C16: every name list_tools advertises is handled by call_tool (it never
\* ends in the unknown-tool failure) and reaches the processor of its own
\* kind, bound to the fetcher of the same kind, which connects with the
\* stored credentials.
C16_DispatchByKind ==
  \A r \in Reqs :
    (pc[r] # "idle" /\ tool[r] \in ListedTools) =>
      /\ exc[r] # Exc("ValueError", <<"Unknown tool: ", tool[r]>>)
      /\ <<tool[r], kind[r]>> \in Routes
      /\ <<tool[r], fetcher[r]>> \in Routes
      /\ \A i \in 1..Len(log[r]) :
           log[r][i].ev = "connect" => log[r][i].data = StoredCredentials

C16_Witness ==
  \E r \in Reqs :
    /\ tool[r] = "get_volume_services"
    /\ pc[r] = "returned"
    /\ Has(r, "connect")
    /\ kind[r] = "volume_service" /\ fetcher[r] = "volume_service"

\* the round-trip scenario: volumes alpha, beta, gamma-alpha, filter
\* "alpha", limit 10, tier basic
RoundTrip(r) ==
  /\ kind[r] = "volume" /\ fetcher[r] = "volume"
  /\ raw[r] = RoundTripCloud
  /\ filter_value[r] = Alpha
  /\ limit[r] = 10
  /\ detail_level[r] = "basic"

\* the four lines of a volume's block at tier basic
BasicVolumeBlock(id, name, status, size) ==
  <<[label |-> "id", v |-> Str(id)], [label |-> "name", v |-> Str(name)],
    [label |-> "status", v |-> Str(<<status>>)],
    [label |-> "size_gb", v |-> Num(size)]>>

\* C17: in the round-trip scenario the pipeline does not fail, the result
\* is exactly alpha and gamma-alpha in that order, and the text enumerates
\* them as 1. and 2., each with its id, name, status and size lines and no
\* tier-gated line.
C17_RoundTrip ==
  \A r \in Reqs :
    RoundTrip(r) =>
      /\ pc[r] \in {"except", "raised"} => err[r] = ChannelFailure
      /\ PipelineReturned(r) =>
           results[r] = <<RoundTripCloud[1], RoundTripCloud[3]>>
      /\ pc[r] = "returned" =>
           text[r] =
             [some |-> TRUE, empty |-> FALSE, kind |-> "volume",
              count |-> 2, numbers |-> <<1, 2>>,
              blocks |->
                <<BasicVolumeBlock(<<"v", "1">>, Alpha, "available", 10),
                  BasicVolumeBlock(<<"v", "3">>,
                    <<"g", "a", "m", "m", "a", "-", "a", "l", "p", "h", "a">>,
                    "error", 5)>>]

C17_Witness ==
  \E r \in Reqs :
    /\ RoundTrip(r)
    /\ pc[r] = "returned"
    /\ Len(filtered[r]) = 2
    /\ text[r].count = 2

\* the formatter raised on a record of the result
FormatFailed(r) == pc[r] \in {"except", "raised"} /\ err[r] = KeyError

\* C18: for every non-empty result of the pipeline, at every kind and
\* tier, the formatter completes without error and emits one block per
\* record, numbered 1..n in result order; a full-tier record, from which
\* the null fields were dropped, formats too.
C18_FormatCompletes ==
  \A r \in Reqs :
    /\ ~FormatFailed(r)
    /\ (pc[r] = "returned" /\ results[r] # <<>>) =>
         /\ text[r].count = Len(results[r])
         /\ text[r].numbers = [i \in 1..Len(results[r]) |-> i]
         /\ Len(text[r].blocks) = Len(results[r])
         /\ \A i \in 1..Len(results[r]) : text[r].blocks[i] # <<>>

\* the boolean lines of the formatted summaries: kind, label, the key of
\* the projected record they show, and the pair of tokens
BooleanLines ==
  {<<"volume", "bootable", "bootable", "yes", "no">>,
   <<"network", "shared", "is_shared", "yes", "no">>,
   <<"network", "external", "is_external", "yes", "no">>,
   <<"image", "protected", "protected", "yes", "no">>,
   <<"network_agent", "alive", "alive", "active", "inactive">>,
   <<"network_agent", "admin_state", "admin_state_up", "enabled", "disabled">>,
   <<"service", "enabled", "enabled", "enabled", "disabled">>}

\* C19: every boolean field shown in a returned summary is rendered as the
\* affirmative token of its pair exactly when the projected value is
\* boolean true and as the negative token exactly when it is false.
C19_BooleanTokens ==
  \A r \in Reqs :
    pc[r] = "returned" =>
      \A i \in 1..Len(results[r]) :
        \A bl \in BooleanLines :
          (/\ kind[r] = bl[1]
           /\ bl[3] \in DOMAIN results[r][i]
           /\ results[r][i][bl[3]].t = "bool") =>
            \A j \in 1..Len(text[r].blocks[i]) :
              text[r].blocks[i][j].label = bl[2] =>
                text[r].blocks[i][j].v =
                  Str(<<IF results[r][i][bl[3]].b THEN bl[4] ELSE bl[5]>>)

\* the size line of block i of the text of request r
SizeLines(r, i) ==
  {text[r].blocks[i][j].v :
     j \in {j \in 1..Len(text[r].blocks[i]) :
              text[r].blocks[i][j].label = "size"}}

\* h hundredths is b / unit to two decimals: h is the floor of 100 b / unit
\* or one more (written without products beyond 2^31)
IsRounded(h, b, unit) ==
  LET whole == b \div unit
      rest  == b % unit
      cents == h - 100 * whole
  IN /\ cents \in 0..100
     /\ 2 * (Times25DivMod(rest, unit \div 4).q) <= 2 * cents + 1
     /\ 2 * cents - 1 <= 2 * (Times25DivMod(rest, unit \div 4).q) + 1

\* C20: the projection keeps the image size in raw bytes; the formatter
\* shows it in MiB (bytes / 2^20) when that is at most 1024 and in GiB
\* (bytes / 2^30) when it is above; an absent, null or zero size is shown
\* as zero MiB, and the size line never makes the formatter fail.
C20_ImageSize ==
  \A r \in Reqs :
    /\ (kind[r] = "image" /\ FormatFailed(r)) =>
         \E i \in 1..Len(results[r]) :
           ~({"id", "name", "status"} \subseteq DOMAIN results[r][i])
    /\ (kind[r] = "image" /\ PipelineReturned(r)) =>
      \A i \in 1..Len(results[r]) :
        LET x == results[r][i]
            b == IF "size" \in DOMAIN x /\ x["size"].t = "int"
                   THEN x["size"].n ELSE 0
        IN /\ "size" \in DOMAIN limited[r][i] /\ limited[r][i]["size"] # Null
                => x["size"] = limited[r][i]["size"]
           /\ pc[r] = "returned" =>
                \E q \in SizeLines(r, i) :
                  /\ SizeLines(r, i) = {q}
                  /\ b = 0 => q = Quantity("MB", 0)
                  /\ (b > 0 /\ b <= 1024 * (2^20)) =>
                       q.t = "MB" /\ IsRounded(q.n, b, 2^20)
                  /\ b > 1024 * (2^20) =>
                       q.t = "GB" /\ IsRounded(q.n, b, 2^30)

\* an image of exactly 1024 MiB, shown as 1024.00 MB
C20_Witness ==
  \E r \in Reqs :
    /\ kind[r] = "image" /\ pc[r] = "returned" /\ Len(results[r]) = 1
    /\ results[r][1]["size"] = Num(1024 * MiB)
    /\ SizeLines(r, 1) = {Quantity("MB", 102400)}

\* record a agrees with record b on every field of a
AgreesOn(a, b) ==
  /\ DOMAIN a \subseteq DOMAIN b
  /\ \A f \in DOMAIN a : a[f] = b[f]

\* C21: for every kind and raw record, the detailed projection has every
\* field of the basic projection, with the same value: a record projected
\* at tier detailed agrees with the basic projection of the same raw
\* record, and a record projected at tier basic is agreed with by the
\* detailed projection whenever that one is defined.
C21_DetailedExtendsBasic ==
  \A r \in Reqs :
    \A i \in 1..Len(results[r]) :
      LET rec == limited[r][i]
      IN /\ detail_level[r] = "detailed" =>
              /\ ~ProjectRaises(fetcher[r], rec, "basic")
              /\ AgreesOn(Project(fetcher[r], rec, "basic"), results[r][i])
         /\ (detail_level[r] = "basic"
               /\ ~ProjectRaises(fetcher[r], rec, "detailed")) =>
              AgreesOn(results[r][i], Project(fetcher[r], rec, "detailed"))

\* a detailed agent record: more fields than the basic one, same values
C21_Witness ==
  \E r \in Reqs :
    /\ kind[r] = "network_agent" /\ detail_level[r] = "detailed"
    /\ Len(results[r]) = 2
    /\ limited[r][2]["is_alive"] = Bool(FALSE)
    /\ results[r][2]["alive"] = Bool(FALSE)
    /\ "binary" \in DOMAIN results[r][2]

\* the fields the full projection adds to the raw record's own
AddedAtFull(k, rec) ==
  (IF k = "service" THEN {"endpoints"} ELSE {}) \cup
  (IF k = "network" /\ "router:external" \in DOMAIN rec
        /\ rec["router:external"] # Null
     THEN {"is_external"} ELSE {})

\* C22: at tier full the projected record holds exactly the raw record's
\* non-null fields under their own names and values, and no null value;
\* an identity service has its endpoints list attached; a network has
\* is_external equal to "router:external" whenever that key is present and
\* non-null, and keeps the original key.
C22_FullIsNonNullRaw ==
  \A r \in Reqs :
    detail_level[r] = "full" =>
      \A i \in 1..Len(results[r]) :
        LET rec == limited[r][i]
            x   == results[r][i]
            own == {f \in DOMAIN rec : rec[f] # Null}
        IN /\ DOMAIN x = own \cup AddedAtFull(fetcher[r], rec)
           /\ \A f \in own \ AddedAtFull(fetcher[r], rec) : x[f] = rec[f]
           /\ \A f \in DOMAIN x : x[f] # Null
           /\ "is_external" \in AddedAtFull(fetcher[r], rec) =>
                /\ x["is_external"] = rec["router:external"]
                /\ x["router:external"] = rec["router:external"]
           /\ "endpoints" \in AddedAtFull(fetcher[r], rec) =>
                x["endpoints"].t = "list"

\* a network with a null mtu and the external flag set, returned at full
C22_Witness ==
  \E r \in Reqs :
    /\ kind[r] = "network" /\ detail_level[r] = "full" /\ pc[r] = "returned"
    /\ Len(results[r]) = 1
    /\ limited[r][1]["mtu"] = Null
    /\ "mtu" \notin DOMAIN results[r][1]
    /\ results[r][1]["is_external"] = Bool(TRUE)

\* the step leaves every request but r as it was
OnlyChanges(r) ==
  \A q \in Reqs \ {r} :
    /\ pc'[q] = pc[q] /\ text'[q] = text[q] /\ exc'[q] = exc[q]
    /\ err'[q] = err[q] /\ log'[q] = log[q] /\ results'[q] = results[q]
    /\ conns'[q] = conns[q]

\* what a request's own state says about its failure
FailureKeptOwn(r) ==
  /\ \A i \in 1..Len(log[r]) : log[r][i].rid = r
  /\ pc[r] \in {"idle", "start"} =>
       err[r] = <<>> /\ exc[r] = NoExc /\ text[r] = NoText
  /\ err[r] # <<>> => pc[r] \in {"except", "raised"} /\ text[r] = NoText
  /\ pc[r] = "raised" => exc[r] # NoExc /\ text[r] = NoText
  /\ pc[r] = "returned" => exc[r] = NoExc /\ err[r] = <<>> /\ text[r].some
  /\ exc[r] # NoExc => pc[r] = "raised"

\* C23: under any interleaving of concurrent requests every failure stays
\* with its own request: a step of one request changes neither the text,
\* the outcome nor the notifications of another, every notification
\* carries the id of the request that emitted it, a request starts with no
\* error state, and a caught failure always ends in a failure raised to
\* that request's caller, never in returned text.
C23_FailureScoped ==
  /\ [](\A r \in Reqs : FailureKeptOwn(r))
  /\ [][\E r \in Reqs : OnlyChanges(r)]_vars

\* request 1 failed on its enumeration, request 2 returned its text
C23_Witness ==
  /\ pc[1] = "raised" /\ err[1] = EnumerationFailure
  /\ pc[2] = "returned" /\ text[2].count = 1
  /\ Has(1, "notify") /\ CompletedCounts(2) = <<1>>

\* the connections request r has opened, in order
Connections(r) ==
  LET IsConnect(e) == e.ev = "connect" IN SelectSeq(log[r], IsConnect)

\* the worker of request r has started
WorkerStarted(r) == Has(r, "invoke")

\* C24: a request opens its connection inside its own worker, from the six
\* stored credentials unchanged: never more than one, exactly one once the
\* worker is past the connection, and never a connection another request
\* (concurrent or earlier) opened or uses.
C24_OwnConnection ==
  \A r \in Reqs :
    /\ Len(Connections(r)) = conns[r]
    /\ conns[r] <= 1
    /\ conns[r] = 1 => WorkerStarted(r)
    /\ pc[r] \in {"list", "filter", "limit", "project", "completed",
                  "format", "returned"} => conns[r] = 1
    /\ \A i \in 1..Len(Connections(r)) :
         /\ Connections(r)[i].data = StoredCredentials
         /\ Len(Connections(r)[i].data) = 6
         /\ \A q \in Reqs \ {r} :
              \A j \in 1..Len(Connections(q)) :
                Connections(q)[j].n # Connections(r)[i].n

\* two requests of different kinds have returned: two connections
C24_Witness ==
  /\ pc[1] = "returned" /\ pc[2] = "returned" /\ kind[1] # kind[2]
  /\ Len(Connections(1)) = 1 /\ Len(Connections(2)) = 1
  /\ Connections(1)[1].n # Connections(2)[1].n

\* the worker of request r has returned its list
WorkerReturned(r) ==
  /\ Has(r, "connect") /\ Has(r, "list")
  /\ limited[r] = ApplyLimit(filtered[r], limit[r])
  /\ Len(results[r]) = Len(limited[r])

\* the task of request r resumed only after its worker, with its outcome
ResumesWithWorker(r) ==
  /\ (pc[r] \in {"format", "returned"} \/ CompletedCounts(r) # <<>>) =>
       WorkerReturned(r) /\ CompletedCounts(r) = <<Len(results[r])>>
  /\ pc[r] = "returned" =>
       text[r] = FormatSummary(kind[r], results[r], detail_level[r])
  /\ (pc[r] = "raised" /\ exc[r].type = "ValueError"
        /\ err[r] \in PipelineCauses) =>
       exc[r].msg = ErrorMessage(kind[r], err[r])

\* request r is between its call and its end
Running(r) == pc[r] \notin {"idle", "returned", "raised"}

\* C25: the task of a request does not go past the fetch before its worker
\* has completed and resumes with that worker's result or failure; a
\* running request can always take its next step whatever the other
\* requests are doing, and every request that was called ends, returning
\* text or raising a failure.
C25_ResumeAndTerminate ==
  /\ [](\A r \in Reqs : ResumesWithWorker(r))
  /\ [](\A r \in Reqs : Running(r) => ENABLED RequestStep(r))
  /\ \A r \in Reqs : (pc[r] # "idle") ~> (pc[r] \in {"returned", "raised"})

\* request 1 has returned while the worker of request 2 is still at work
C25_Witness ==
  /\ pc[1] = "returned" /\ WorkerReturned(1)
  /\ pc[2] = "project" /\ results[2] = <<>> /\ limited[2] # <<>>

\* how many of request r's events are one of evs
Attempts(r, evs) ==
  LET Is(e) == e.ev \in evs IN Len(SelectSeq(log[r], Is))

\* the fetch of request r failed on its connection or its enumeration
FetchFailed(r) == Has(r, "connect_failed") \/ Has(r, "list_failed")

\* C26: the fetch is attempted once per request: the fetcher is invoked at
\* most once, it connects at most once and enumerates at most once, and
\* when the connection or the enumeration fails nothing of the fetch is
\* tried again: the failed call is the worker's last, the request goes to
\* its handler with that failure and ends raised to the caller.
C26_SingleAttempt ==
  \A r \in Reqs :
    /\ Attempts(r, {"invoke"}) <= 1
    /\ Attempts(r, {"connect", "connect_failed"}) <= 1
    /\ Attempts(r, {"list", "list_failed"}) <= 1
    /\ pc[r] \in {"connect", "list", "filter", "limit", "project",
                  "completed", "format", "returned"} =>
         Attempts(r, {"invoke"}) = 1
    /\ FetchFailed(r) =>
         /\ pc[r] \in {"except", "raised"}
         /\ err[r] \in {ConnectionFailure, EnumerationFailure}
         /\ text[r] = NoText
         /\ pc[r] = "raised" => exc[r] # NoExc
         /\ \A i \in 1..Len(log[r]) :
              log[r][i].ev \in {"connect_failed", "list_failed"} =>
                \A j \in (i + 1)..Len(log[r]) :
                  log[r][j].ev \in {"notify", "send_failed"}

\* an enumeration failed after a good connection, and the caller got the
\* failure after that one attempt
C26_Witness ==
  /\ pc[1] = "raised" /\ err[1] = EnumerationFailure
  /\ exc[1].type = "ValueError"
  /\ Attempts(1, {"connect"}) = 1 /\ Attempts(1, {"list_failed"}) = 1

\* the position of the caller's abandonment among request r's events, or 0
AbandonedAt(r) ==
  IF Has(r, "cancel")
    THEN CHOOSE i \in 1..Len(log[r]) : log[r][i].ev = "cancel"
    ELSE 0

\* the worker of request r has returned its list or raised its failure
FetchCompleted(r) ==
  /\ pc[r] \notin WorkerStates
  /\ WorkerReturned(r) \/ err[r] \in PipelineCauses

\* the next call of request r's worker
WorkerStep(r) ==
  \/ Connect(r)
  \/ Enumerate(r, ConcClouds(fetcher[r]))
  \/ Filter(r)
  \/ Limit(r)
  \/ ProjectNext(r)
  \/ WorkerReturn(r)

\* what request r sent after its caller abandoned it is what the task sends
\* when it goes on after the worker: one 'completed' with the worker's
\* count, or one 'error' with the worker's failure
SentAfterAbandonment(r) ==
  \A j \in (AbandonedAt(r) + 1)..Len(log[r]) :
    log[r][j].ev = "notify" =>
      /\ FetchCompleted(r)
      /\ \/ /\ IsNote(log[r][j], "completed")
            /\ WorkerReturned(r)
            /\ log[r][j].n = Len(results[r])
         \/ /\ IsNote(log[r][j], "error")
            /\ err[r] # <<>>
            /\ log[r][j].data = ErrorMessage(kind[r], err[r])

\* C27: abandoning a request while its worker is fetching does not stop
\* the fetch: the worker's next call stays possible, the fetch runs to its
\* end (its list returned or its failure raised), the task is not ended
\* before that, and after the abandonment the request sends nothing but
\* what the continuation of that fetch sends.
C27_AbandonedFetchCompletes ==
  /\ [](\A r \in Reqs :
         (Has(r, "cancel") /\ pc[r] \in WorkerStates) => ENABLED WorkerStep(r))
  /\ [](\A r \in Reqs : pc[r] = "cancelled" => FetchCompleted(r))
  /\ [](\A r \in Reqs : Has(r, "cancel") => SentAfterAbandonment(r))
  /\ \A r \in Reqs : Has(r, "cancel") ~> FetchCompleted(r)

\* request 1 was abandoned before its worker had connected; the worker went
\* on to return its record and the task ended cancelled, nothing sent
C27_Witness ==
  /\ pc[1] = "cancelled" /\ AbandonedAt(1) = 3
  /\ WorkerReturned(1) /\ Len(results[1]) = 1
  /\ Len(log[1]) = 5 /\ CompletedCounts(1) = <<>>

\* the notifications of request r that say what
Notes(r, what) ==
  LET Is(e) == IsNote(e, what) IN SelectSeq(log[r], Is)

\* C28: one invocation emits at most one terminal notification: never more
\* than one 'completed', never more than one 'error', and never both,
\* whatever follows the fetch, formatting included.
C28_OneTerminalNotification ==
  \A r \in Reqs :
    /\ Len(Notes(r, "completed")) <= 1
    /\ Len(Notes(r, "error")) <= 1
    /\ Len(Notes(r, "completed")) + Len(Notes(r, "error")) <= 1

\* C29: when an invocation succeeds, the count of its 'completed'
\* notification, the count in the header of its text and the number of
\* numbered blocks in that text are one number N (the text of an empty
\* result is the fixed sentence, with no header and no block, and N is 0),
\* and N is at most the limit when the limit is not negative.
C29_CountsAgree ==
  \A r \in Reqs :
    pc[r] = "returned" =>
      /\ Len(CompletedCounts(r)) = 1
      /\ LET N == CompletedCounts(r)[1] IN
           /\ Len(text[r].blocks) = N
           /\ text[r].numbers = [i \in 1..N |-> i]
           /\ text[r].empty <=> N = 0
           /\ ~ text[r].empty => text[r].count = N
           /\ limit[r] >= 0 => N <= limit[r]

\* the limit cut two enumerated records down to one: N is 1 three times
C29_Witness ==
  /\ pc[1] = "returned" /\ limit[1] = 1 /\ Len(filtered[1]) = 2
  /\ CompletedCounts(1) = <<1>> /\ text[1].count = 1
  /\ Len(text[1].blocks) = 1 /\ ~ text[1].empty

\* the causes a request can fail with: the pipeline's, the formatter's
\* KeyError and a closed session; none of them is a rejected tier
KnownCauses == PipelineCauses \cup {KeyError, ChannelFailure}

\* C30: a detail_level outside basic, detailed and full is rejected
\* nowhere: the dispatcher hands it to the processor as it came, the
\* request fails only for the causes a full-tier request fails for, the
\* projector treats it as full (same failure, same record, same endpoint
\* lookup) and the formatter as a non-basic tier, so the text returned is
\* the text of the same results at tier full, for every kind.
C30_UnknownTierIsFull ==
  \A r \in Reqs :
    (tool[r] \in ToolNames /\ detail_level[r] \notin DetailLevels) =>
      /\ arguments[r]["detail_level"] = Str(<<detail_level[r]>>)
      /\ err[r] # <<>> => err[r] \in KnownCauses
      /\ pc[r] = "raised" =>
           \/ exc[r] = Exc("ChannelError", ChannelFailure)
           \/ exc[r] = Exc("ValueError", ErrorMessage(kind[r], err[r]))
      /\ NeedsEndpoints(fetcher[r], detail_level[r])
           = NeedsEndpoints(fetcher[r], "full")
      /\ \A i \in 1..Len(limited[r]) :
           /\ ProjectRaises(fetcher[r], limited[r][i], detail_level[r])
                = ProjectRaises(fetcher[r], limited[r][i], "full")
           /\ Project(fetcher[r], limited[r][i], detail_level[r])
                = Project(fetcher[r], limited[r][i], "full")
      /\ \A i \in 1..Len(results[r]) :
           LET p == Project(fetcher[r], limited[r][i], "full")
               x == results[r][i]
           IN /\ DOMAIN x = DOMAIN p \cup
                   (IF fetcher[r] = "service" THEN {"endpoints"} ELSE {})
              /\ \A f \in DOMAIN p \ {"endpoints"} : x[f] = p[f]
      /\ pc[r] = "returned" =>
           text[r] = FormatSummary(kind[r], results[r], "full")

\* an identity service asked at tier "verbose" came back with its
\* endpoints attached and its gated lines in the text
C30_Witness ==
  /\ pc[1] = "returned" /\ detail_level[1] = "verbose" /\ kind[1] = "service"
  /\ Len(results[1]) = 1 /\ "endpoints" \in DOMAIN results[1][1]
  /\ text[1].blocks
       # FormatSummary(kind[1], results[1], "basic").blocks

====
